---- MODULE Spec2Model ----
(***************************************************************************)
(* A model of the EMG monitor's core: the frame extraction loop of         *)
(* SerialDeviceManager._read_loop (serial_device.py), the packet decoder   *)
(* parse_packet / _combine_signed (data_parser.py) and the rolling channel *)
(* buffer EmgRingBuffer (buffers.py), and the per-channel signal quality   *)
(* classifier of MainWindow._handle_emg_sample and                         *)
(* MainWindow._update_channel_indicator (ui/main_window.py).               *)
(*                                                                         *)
(* Bytes are the integers 0..255 and byte strings are sequences of them.   *)
(* Python indices are 0-based, TLA+ sequences 1-based: Find returns the    *)
(* 0-based offset that bytearray.find returns, and the slicing helpers     *)
(* take Python's offsets.                                                  *)
(***************************************************************************)
EXTENDS Integers, Sequences, FiniteSets, TLC

VARIABLES
    stream,     \* the bytes the serial port will deliver in this session
    pos,        \* how many of them _read_loop has read so far
    buffer,     \* _read_loop's local bytearray `buffer`
    packets,    \* every packet_data handed to parse_packet, in order
    delivered,  \* every sample passed to on_packet, in order
    lastExit,   \* how the last run of the extraction loop ended
    lastScan,   \* the buffer the last pass of that run looked at
    raw,        \* parse_packet's argument (decoder specification)
    parsed,     \* parse_packet's result or error
    sample,     \* the sample whose wire encoding raw is, when it is one
    grp,        \* _combine_signed's bytes_seq
    bits,       \* _combine_signed's bits
    combined,   \* _combine_signed's result
    capacity,   \* EmgRingBuffer.capacity
    channels,   \* EmgRingBuffer.channels
    data,       \* EmgRingBuffer._data: column index -> vector of channels
    index,      \* EmgRingBuffer._index
    filled,     \* EmgRingBuffer._filled
    appended,   \* every vector append() has stored since construction or clear()
    snap,       \* what the last snapshot() returned
    lastOp,     \* the last EmgRingBuffer operation and how it ended
    lastValues, \* the argument of the last call when it was append()
    cleared,    \* whether clear() has been called since construction
    held,       \* an array snapshot() returned that its caller has kept
    connected,               \* whether a device manager is active
    packet_count,            \* MainWindow._packet_count
    baseline_initialized,    \* MainWindow._baseline_initialized
    channel_baseline,        \* MainWindow._channel_baseline
    channel_last_values,     \* MainWindow._channel_last_values
    channel_current_state,   \* MainWindow._channel_current_state
    channel_noise_level,     \* MainWindow._channel_noise_level
    last_baseline_reset,     \* MainWindow._last_baseline_reset
    tick,           \* EMG samples handled since construction
    quietAmp,       \* amplitude of the resting signal of this session
    mode,           \* what the source is emitting: "quiet", "burst" or "hold"
    burstLeft,      \* samples of the current burst still to come
    burstAmp,       \* amplitude of the current burst
    drops,          \* disconnects so far
    prev_state,     \* _channel_current_state before the last handler ran
    prev_initialized, \* _baseline_initialized before the last handler ran
    channel_activity, \* channel_activity of the last sample, <<>> if none
    lastStep,       \* which path the last handler took
    phaseSum,       \* the activity added up since the calibration phase began
    calSamples,     \* the samples handled as calibration since it began
    sinceCal,       \* the samples handled since the last calibration ended
    lvlNoise,       \* _channel_noise_level of the channel under study
    lvlState,       \* its _channel_current_state
    lvlPrev,        \* its state before the last _update_channel_indicator
    lvlStrength,    \* the strength of that call, -1 before the first
    lvlStreak,      \* consecutive calls at exactly 3 x the noise baseline
    sim_running,    \* SimulatedDeviceManager._running
    emg_gen,        \* emg_waveform_generator: whether started, and its sequence
    imu_gen,        \* imu_waveform_generator: whether started, and its sequence
    imu_counter,    \* SimulatedDeviceManager._run's imu_counter
    sim_yielded,    \* per generator, the sequence numbers of its last two samples
    sim_tasks,      \* where each _run task created so far is
    sim_task,       \* which of them SimulatedDeviceManager._task is, 0 for None
    sim_waits,      \* the task each suspended disconnect() is awaiting
    sim_last,       \* the task that passed the last sample to on_packet
    sim_quiet,      \* a disconnect() has returned and no connect() has run since
    ser_running,    \* SerialDeviceManager._running
    ser_open,       \* whether _serial is set and open
    task,           \* where the _read_loop task is
    cancel_requested, \* whether _listen_task.cancel() has been called on it
    disc,           \* where the disconnect() coroutine is
    lastStatus,     \* the last message passed to on_status
    lastIter,       \* how the last iteration of _read_loop went
    connects,       \* connect() calls so far
    returnedAt,     \* samples delivered when disconnect() last returned, -1 if never
    orphans,        \* the _read_loop tasks _listen_task no longer refers to
    enable_camera,  \* MotionRecorder.enable_camera
    recording,      \* MotionRecorder.recording
    session_frames, \* session.frames: for each frame whether frame_image is set
    any_image,      \* whether a frame of the session was captured with an image
    video,          \* what the last stop_recording() did about the video file
    cached_frame,   \* _cached_frame: 0 for None, -1 while the attribute is deleted,
                    \* else the number of the camera frame it is a copy of
    cached_landmarks, \* _cached_landmarks, likewise
    cached_has_hand,  \* _cached_has_hand
    frame_counter,  \* _frame_counter
    camera_lock,    \* who holds _camera_lock: "free", "capture" or "main"
    cam_pc,         \* where the capture thread is in _camera_capture_loop
    main_pc,        \* where the sample-handling thread is
    rd_frame,       \* the frame the last reader got
    rd_landmarks,   \* the landmarks the last reader got
    rd_error,       \* the exception the last reader raised, "none" if none
    rd_during,      \* whether it read the cache while the capture thread
                    \* was updating it
    ble_client,     \* BleController._client: "none" or its address and state
    mgr_client,     \* DeviceManager._client
    notifying,      \* whether start_notify has subscribed the handler
    ble_status,     \* the last message DeviceManager passed to on_status
    ble_result,     \* how the last DeviceManager call ended
    ble_calls       \* DeviceManager calls made so far

syncVars == <<stream, pos, buffer, packets, delivered, lastExit, lastScan>>
parseVars == <<raw, parsed, sample, grp, bits, combined>>
ringVars == <<capacity, channels, data, index, filled, appended, snap, lastOp,
              lastValues, cleared, held>>
clsVars == <<connected, packet_count, baseline_initialized, channel_baseline,
             channel_last_values, channel_current_state, channel_noise_level,
             last_baseline_reset>>
envVars == <<tick, quietAmp, mode, burstLeft, burstAmp, drops, prev_state,
             prev_initialized, channel_activity, lastStep, phaseSum,
             calSamples, sinceCal>>
lvlVars == <<lvlNoise, lvlState, lvlPrev, lvlStrength, lvlStreak>>
simVars == <<sim_running, emg_gen, imu_gen, imu_counter, sim_yielded, sim_tasks,
             sim_task, sim_waits, sim_last, sim_quiet>>
loopVars == <<ser_running, ser_open, task, cancel_requested, disc, lastStatus,
              lastIter, connects, returnedAt, orphans>>
recVars == <<enable_camera, recording, session_frames, any_image, video,
             cached_frame, cached_landmarks, cached_has_hand, frame_counter,
             camera_lock, cam_pc, main_pc, rd_frame, rd_landmarks, rd_error,
             rd_during>>
bleVars == <<ble_client, mgr_client, notifying, ble_status, ble_result, ble_calls>>
vars == <<syncVars, parseVars, ringVars, clsVars, envVars, lvlVars, simVars,
         loopVars, recVars, bleVars>>

-----------------------------------------------------------------------------
(* Byte-string helpers (Python slicing and bytearray.find).                *)

\* s[:n]
Take(s, n) == SubSeq(s, 1, IF n < Len(s) THEN n ELSE Len(s))

\* s[n:]
Drop(s, n) == SubSeq(s, n + 1, Len(s))

\* s[-n:] for 1 <= n
LastN(s, n) == IF n >= Len(s) THEN s ELSE SubSeq(s, Len(s) - n + 1, Len(s))

MatchAt(s, pat, i) == \A j \in 1..Len(pat) : s[i + j] = pat[j]

SetMin(S) == CHOOSE x \in S : \A y \in S : x <= y

\* bytearray.find(pat): the lowest 0-based offset of pat in s, or -1
Find(s, pat) ==
    LET hits == {i \in 0..(Len(s) - Len(pat)) : MatchAt(s, pat, i)}
    IN  IF hits = {} THEN -1 ELSE SetMin(hits)

\* bytes.startswith
StartsWith(s, pat) == Len(s) >= Len(pat) /\ MatchAt(s, pat, 0)

\* n copies of byte b
Rep(b, n) == [i \in 1..n |-> b]

-----------------------------------------------------------------------------
(* data_parser.py                                                          *)

HEADER == <<210, 210, 210>>
PAYLOAD_LENGTH == 29
TYPE_EMG == 170
TYPE_IMU == 187
\* 0.0012 and 0.0005978 in units of 1e-7: scaled values are kept as exact
\* fixed-point integers of that unit
GYRO_SCALE == 12000
ACCEL_SCALE == 5978

Pow2(n) == 2 ^ n

\* ((value << 8) | byte) for byte in bytes_seq, from value = 0
RECURSIVE ShiftOr(_, _)
ShiftOr(value, bytes_seq) ==
    IF bytes_seq = <<>> THEN value
    ELSE ShiftOr(value * 256 + Head(bytes_seq), Tail(bytes_seq))

\* value & sign_bit, as a truth value
BitSet(value, bit) == (value \div Pow2(bit)) % 2 = 1

\* the sign is never applied
CombineSigned_NoSign(bytes_seq, nbits) == ShiftOr(0, bytes_seq)

\* sign extension from bit 15, as for a native 16-bit integer
CombineSigned_Native16(bytes_seq, nbits) ==
    LET value == ShiftOr(0, bytes_seq)
    IN  IF BitSet(value, 15) THEN value - Pow2(16) ELSE value

CombineSigned(bytes_seq, nbits) ==
    LET value == ShiftOr(0, bytes_seq)
    IN  IF BitSet(value, nbits - 1) THEN value - Pow2(nbits) ELSE value

\* the chunks payload[offset : offset + width] for offset in range(0, len, width),
\* stopping at the first chunk shorter than width
RECURSIVE Chunks(_, _)
Chunks(payload, width) ==
    IF Len(payload) < width THEN <<>>
    ELSE <<Take(payload, width)>> \o Chunks(Drop(payload, width), width)

DecodeGroups(payload, width) ==
    LET cs == Chunks(payload, width)
    IN  [i \in 1..Len(cs) |-> CombineSigned(cs[i], 8 * width)]

Scale(vals, factor) == [i \in 1..Len(vals) |-> vals[i] * factor]

PacketError(why) == [kind |-> "error", error |-> why]

\* the IMU branch's group width used for EMG
ParseEmg_Width2(sequence, payload) ==
    [kind |-> "emg", sequence |-> sequence,
     channels_uv |-> DecodeGroups(payload, 2)]

ParseEmg(sequence, payload) ==
    [kind |-> "emg", sequence |-> sequence,
     channels_uv |-> DecodeGroups(payload, 3)]

\* one factor for both triples
ParseImu_OneScale(sequence, payload) ==
    LET decoded == DecodeGroups(payload, 2)
    IN  [kind |-> "imu", sequence |-> sequence,
         gyro_rads |-> Scale(Take(decoded, 3), GYRO_SCALE),
         accel_mss |-> Scale(SubSeq(decoded, 4, 6), GYRO_SCALE),
         remainder |-> Drop(decoded, 6)]

ParseImu(sequence, payload) ==
    LET decoded == DecodeGroups(payload, 2)
    IN  [kind |-> "imu", sequence |-> sequence,
         gyro_rads |-> Scale(Take(decoded, 3), GYRO_SCALE),
         accel_mss |-> Scale(SubSeq(decoded, 4, IF Len(decoded) < 6 THEN Len(decoded) ELSE 6),
                             ACCEL_SCALE),
         remainder |-> Drop(decoded, 6)]

\* the type byte is not checked: whatever is not EMG is taken for IMU
ParsePacket_AnyType(r) ==
    IF Len(r) # PAYLOAD_LENGTH THEN PacketError("length")
    ELSE IF ~StartsWith(r, HEADER) THEN PacketError("header")
    ELSE IF r[4] = TYPE_EMG THEN ParseEmg(r[5], Drop(r, 5))
    ELSE ParseImu(r[5], Drop(r, 5))

ParsePacket(r) ==
    IF Len(r) # PAYLOAD_LENGTH THEN PacketError("length")
    ELSE IF ~StartsWith(r, HEADER) THEN PacketError("header")
    ELSE LET packet_type == r[4]
             sequence == r[5]
             payload == Drop(r, 5)
         IN  IF packet_type = TYPE_EMG THEN ParseEmg(sequence, payload)
             ELSE IF packet_type = TYPE_IMU THEN ParseImu(sequence, payload)
             ELSE PacketError("type")

-----------------------------------------------------------------------------
(* serial_device.py: the extraction loop of _read_loop                     *)

PACKET_LENGTH == 29
EXPECTED_HEADER == <<210, 210, 210>>

\* a whole frame length and one byte more are kept
TrimNoHeader_KeepFrame(buf) ==
    IF Len(buf) > 29 THEN LastN(buf, 30) ELSE buf

\* only the last byte is kept
TrimNoHeader_KeepOne(buf) ==
    IF Len(buf) > 29 THEN LastN(buf, 1) ELSE buf

\* nothing is discarded
TrimNoHeader_KeepAll(buf) == buf

\* everything is discarded, the bytes a header may begin with too
TrimNoHeader_DropAll(buf) == IF Len(buf) > 29 THEN <<>> ELSE buf

\* lines 144-145: no header found
TrimNoHeader(buf) ==
    IF Len(buf) > PACKET_LENGTH THEN LastN(buf, PACKET_LENGTH - 1) ELSE buf

\* the bytes before the header are kept
DropGarbage_Keep(buf, header_pos) == buf

\* lines 149-150: drop what precedes the header
DropGarbage(buf, header_pos) ==
    IF header_pos > 0 THEN Drop(buf, header_pos) ELSE buf

\* line 157
PacketData(buf) == Take(buf, PACKET_LENGTH)

\* one pass of the while loop's body (lines 139-158) over a buffer of at
\* least PACKET_LENGTH bytes
ScanPass(buf) ==
    LET header_pos == Find(buf, EXPECTED_HEADER)
    IN  IF header_pos = -1
        THEN [exit |-> "no_header", buffer |-> TrimNoHeader(buf), packet |-> <<>>]
        ELSE LET b == DropGarbage(buf, header_pos)
             IN  IF Len(b) < PACKET_LENGTH
                 THEN [exit |-> "incomplete", buffer |-> b, packet |-> <<>>]
                 ELSE [exit |-> "packet", buffer |-> Drop(b, PACKET_LENGTH),
                       packet |-> PacketData(b)]

\* an `if` in place of the `while`: at most one packet for each read
ExtractLoop_Once(buf, pkts) ==
    IF Len(buf) < PACKET_LENGTH
    THEN [buffer |-> buf, packets |-> pkts, exit |-> "short", scan |-> buf]
    ELSE LET r == ScanPass(buf)
         IN  [buffer |-> r.buffer,
              packets |-> IF r.exit = "packet" THEN Append(pkts, r.packet) ELSE pkts,
              exit |-> r.exit, scan |-> buf]

\* the while loop (lines 138-169): passes until the buffer is short or a pass
\* breaks; pkts collects each packet_data in order
RECURSIVE ExtractLoop(_, _)
ExtractLoop(buf, pkts) ==
    IF Len(buf) < PACKET_LENGTH
    THEN [buffer |-> buf, packets |-> pkts, exit |-> "short", scan |-> buf]
    ELSE LET r == ScanPass(buf)
         IN  IF r.exit = "packet"
             THEN ExtractLoop(r.buffer, Append(pkts, r.packet))
             ELSE [buffer |-> r.buffer, packets |-> pkts, exit |-> r.exit,
                   scan |-> buf]

\* a loop that gives up the rest of the read at the first packet that does
\* not parse
RECURSIVE Decoded_StopAtError(_)
Decoded_StopAtError(pkts) ==
    IF pkts = <<>> THEN <<>>
    ELSE LET p == ParsePacket(Head(pkts))
         IN  IF p.kind = "error" THEN <<>>
             ELSE <<p>> \o Decoded_StopAtError(Tail(pkts))

\* lines 160-169: the packets that parse are passed to on_packet, the others
\* are logged and dropped
RECURSIVE Decoded(_)
Decoded(pkts) ==
    IF pkts = <<>> THEN <<>>
    ELSE LET p == ParsePacket(Head(pkts))
         IN  (IF p.kind = "error" THEN <<>> ELSE <<p>>) \o Decoded(Tail(pkts))

-----------------------------------------------------------------------------
(* The sessions explored: what the serial port delivers.                   *)

MaxShortGarbage == 1
MaxOverGarbage == 1

\* the wire format: header, type byte, sequence byte, 24 payload bytes
MakeFrame(type, sequence, payload) == HEADER \o <<type, sequence>> \o payload

\* n bytes of line noise: 0x11 bytes, the last t of them 0xD2
Garbage(n, t) == Rep(17, n - t) \o Rep(210, t)

GarbageLens ==
    (0..MaxShortGarbage) \cup
    (PACKET_LENGTH..(PACKET_LENGTH + MaxOverGarbage))

\* noise that ends with none, a part or the whole of a header
Garbages ==
    {Garbage(p[1], p[2]) :
        p \in {q \in GarbageLens \X (0..Len(EXPECTED_HEADER)) : q[2] <= q[1]}}

\* an EMG frame and an IMU frame whose payload is all 0xD2
GoodFrames ==
    {MakeFrame(TYPE_EMG, 0, Rep(1, 24)),
     MakeFrame(TYPE_IMU, 255, Rep(210, 24))}

\* and a frame of unknown type
SomeFrames == GoodFrames \cup {MakeFrame(0, 7, Rep(128, 24))}

\* no frame, one frame, or two frames back to back
FrameRuns ==
    {<<>>} \cup SomeFrames \cup {f \o g : f \in SomeFrames, g \in GoodFrames}

Streams == {g \o r : g \in Garbages, r \in FrameRuns}

-----------------------------------------------------------------------------
(* Initial states                                                          *)

SyncInit ==
    /\ pos = 0
    /\ buffer = <<>>
    /\ packets = <<>>
    /\ delivered = <<>>
    /\ lastExit = "none"
    /\ lastScan = <<>>

ParseInit ==
    /\ raw = <<>>
    /\ parsed = [kind |-> "none"]
    /\ sample = [kind |-> "none"]
    /\ grp = <<>>
    /\ bits = 0
    /\ combined = <<>>

\* the channels of a sample the classifier is followed on (EMG_CHANNELS is 8;
\* every channel is treated alike and they meet only in the all-idle test)
ClsChannels == {1, 2}

\* MainWindow.__init__, lines 174-185, before any device is connected
ClsInit ==
    /\ connected = FALSE
    /\ packet_count = 0
    /\ baseline_initialized = FALSE
    /\ channel_baseline = [i \in ClsChannels |-> 0]
    /\ channel_last_values = [i \in ClsChannels |-> 0]
    /\ channel_current_state = [i \in ClsChannels |-> 0]
    /\ channel_noise_level = [i \in ClsChannels |-> 0]
    /\ last_baseline_reset = 0

\* no sample handled yet
EnvInit ==
    /\ tick = 0
    /\ mode = "quiet"
    /\ burstLeft = 0
    /\ burstAmp = 0
    /\ drops = 0
    /\ prev_state = [i \in ClsChannels |-> 0]
    /\ prev_initialized = FALSE
    /\ channel_activity = <<>>
    /\ lastStep = "init"
    /\ phaseSum = [i \in ClsChannels |-> 0]
    /\ calSamples = 0
    /\ sinceCal = 0

\* one channel's indicator before its first update
LvlInit ==
    /\ lvlState = 0
    /\ lvlPrev = 0
    /\ lvlStrength = -1
    /\ lvlStreak = 0

\* SimulatedDeviceManager.__init__, sim_device.py lines 21-24; the generators
\* are made when _run starts
SimInit ==
    /\ sim_running = FALSE
    /\ emg_gen = [started |-> FALSE, sequence |-> 0]
    /\ imu_gen = [started |-> FALSE, sequence |-> 0]
    /\ imu_counter = 0
    /\ sim_yielded = [k \in {"emg", "imu"} |-> <<>>]
    /\ sim_tasks = <<>>
    /\ sim_task = 0
    /\ sim_waits = <<>>
    /\ sim_last = 0
    /\ sim_quiet = FALSE

\* SerialDeviceManager's field defaults, serial_device.py lines 30-32
LoopInit ==
    /\ ser_running = FALSE
    /\ ser_open = FALSE
    /\ task = "none"
    /\ cancel_requested = FALSE
    /\ disc = "idle"
    /\ lastStatus = "none"
    /\ lastIter = "none"
    /\ connects = 0
    /\ returnedAt = -1
    /\ orphans = <<>>

\* MotionRecorder.__init__, motion_recorder.py lines 163-204, but for
\* enable_camera, which depends on MediaPipe having been loaded
RecInit ==
    /\ recording = FALSE
    /\ session_frames = <<>>
    /\ any_image = FALSE
    /\ video = "none"
    /\ cached_frame = 0
    /\ cached_landmarks = 0
    /\ cached_has_hand = FALSE
    /\ frame_counter = 0
    /\ camera_lock = "free"
    /\ cam_pc = "stopped"
    /\ main_pc = "idle"
    /\ rd_frame = 0
    /\ rd_landmarks = 0
    /\ rd_error = "none"
    /\ rd_during = FALSE

\* DeviceManager and its BleController as constructed, device_manager.py
\* lines 31-32 and ble.py lines 25-27
NoClient == [address |-> "none", is_connected |-> FALSE]

BleInit ==
    /\ ble_client = NoClient
    /\ mgr_client = NoClient
    /\ notifying = FALSE
    /\ ble_status = "none"
    /\ ble_result = "none"
    /\ ble_calls = 0

\* no array returned yet
NoArray == [cols |-> -1, view |-> FALSE, taken |-> <<>>]

RingInit ==
    /\ data = [c \in 0..(capacity - 1) |-> [ch \in 1..channels |-> 0]]
    /\ index = 0
    /\ filled = FALSE
    /\ appended = <<>>
    /\ snap = <<>>
    /\ lastOp = "init"
    /\ lastValues = <<>>
    /\ cleared = FALSE
    /\ held = NoArray

Init ==
    /\ stream \in Streams
    /\ SyncInit
    /\ ParseInit
    /\ capacity = 1
    /\ channels = 1
    /\ RingInit
    /\ ClsInit /\ EnvInit /\ quietAmp = 0
    /\ LvlInit /\ lvlNoise = 0
    /\ SimInit /\ LoopInit /\ RecInit /\ enable_camera = FALSE /\ BleInit

-----------------------------------------------------------------------------
(* _read_loop: one iteration that finds in_waiting = n > 0 bytes           *)

Feed(n) ==
    /\ pos + n <= Len(stream)
    /\ \E r \in {ExtractLoop(buffer \o SubSeq(stream, pos + 1, pos + n), <<>>)} :
           /\ buffer' = r.buffer
           /\ packets' = packets \o r.packets
           /\ delivered' = delivered \o Decoded(r.packets)
           /\ lastExit' = r.exit
           /\ lastScan' = r.scan
    /\ pos' = pos + n
    /\ UNCHANGED <<stream, parseVars, recVars, bleVars, ringVars, clsVars, envVars, lvlVars, simVars, loopVars>>

Next == \E n \in 1..(Len(stream) - pos) : Feed(n)

Spec == Init /\ [][Next]_vars

StreamDone == pos = Len(stream)

-----------------------------------------------------------------------------
(* Frame synchronizer properties                                           *)

ValidFrame(f) == ParsePacket(f).kind \in {"emg", "imu"}

\* C1: every frame handed to the decoder is exactly 29 bytes long and begins
\* with the marker 0xD2 0xD2 0xD2, whatever bytes were fed and however they
\* were chunked.
C1_EveryPacketFramed ==
    \A i \in 1..Len(packets) :
        /\ Len(packets[i]) = 29
        /\ SubSeq(packets[i], 1, 3) = <<210, 210, 210>>

\* a frame was extracted from a stream that starts with noise
C1_Witness ==
    /\ Len(packets) >= 1
    /\ stream[1] # 210
    /\ lastExit = "short"

\* s is noise without the marker followed by exactly one valid frame
GarbageThenFrame(s) ==
    /\ Len(s) >= PACKET_LENGTH
    /\ ValidFrame(LastN(s, PACKET_LENGTH))
    /\ Find(Take(s, Len(s) - PACKET_LENGTH), EXPECTED_HEADER) = -1

GarbageOf(s) == Take(s, Len(s) - PACKET_LENGTH)

EndsWithMarkerByte(g) == g # <<>> /\ g[Len(g)] = 210

\* C2 as stated: marker-free garbage of any length followed by one valid
\* frame yields exactly that frame once the stream has been read.
C2_Original ==
    (StreamDone /\ GarbageThenFrame(stream))
        => /\ packets = <<LastN(stream, PACKET_LENGTH)>>
           /\ buffer = <<>>

\* C2 amended: the same, for garbage that does not end with the byte 0xD2.
C2_GarbageThenFrame ==
    (StreamDone /\ GarbageThenFrame(stream) /\ ~EndsWithMarkerByte(GarbageOf(stream)))
        => /\ packets = <<LastN(stream, PACKET_LENGTH)>>
           /\ delivered = <<ParsePacket(LastN(stream, PACKET_LENGTH))>>
           /\ buffer = <<>>

\* more than a frame length of garbage, then the frame, all read
C2_Witness ==
    /\ StreamDone
    /\ GarbageThenFrame(stream)
    /\ ~EndsWithMarkerByte(GarbageOf(stream))
    /\ Len(GarbageOf(stream)) > PACKET_LENGTH
    /\ Len(packets) = 1

TwoFrames(s) ==
    /\ Len(s) = 2 * PACKET_LENGTH
    /\ ValidFrame(Take(s, PACKET_LENGTH))
    /\ ValidFrame(Drop(s, PACKET_LENGTH))

\* C3: two valid frames back to back, split into chunks in any way, yield
\* exactly the two frames in order: at every point of the feed the frames
\* emitted are the frames completely received, and nothing is left over.
C3_TwoFramesAnySplit ==
    TwoFrames(stream) =>
        /\ packets = IF pos < PACKET_LENGTH THEN <<>>
                     ELSE IF pos < 2 * PACKET_LENGTH THEN <<Take(stream, PACKET_LENGTH)>>
                     ELSE <<Take(stream, PACKET_LENGTH), Drop(stream, PACKET_LENGTH)>>
        /\ StreamDone => buffer = <<>>

\* two different valid frames, all 58 bytes read, both frames out in order
C3_Witness ==
    /\ TwoFrames(stream)
    /\ StreamDone
    /\ Len(packets) = 2
    /\ packets[1] # packets[2]

\* C4: when a scan pass finds no marker, the accumulator afterwards holds at
\* most 29 bytes: the last 28 of them if it held more than 29, all of them
\* otherwise; and that pass is the last of the run.
C4_NoHeaderBounded ==
    lastExit = "no_header" =>
        /\ Len(buffer) <= 29
        /\ Len(lastScan) > 29 => buffer = LastN(lastScan, 28)
        /\ Len(lastScan) <= 29 => buffer = lastScan

C4_Witness ==
    /\ lastExit = "no_header"
    /\ Len(lastScan) > 29
    /\ Len(buffer) = 28

\* C33: after every read the accumulator holds fewer than 29 bytes, or
\* exactly 29 bytes without the marker in them.
C33_AccumulatorBounded ==
    \/ Len(buffer) < PACKET_LENGTH
    \/ Len(buffer) = PACKET_LENGTH /\ Find(buffer, EXPECTED_HEADER) = -1

\* 29 bytes of noise ending with two marker bytes are held back, and a frame
\* is still to come
C33_Witness ==
    /\ Len(buffer) = PACKET_LENGTH
    /\ buffer[PACKET_LENGTH] = 210
    /\ lastExit = "no_header"
    /\ Len(stream) > pos

NoMarkerByte(g) == \A i \in 1..Len(g) : g[i] # 210

\* C34: noise without any byte 0xD2 followed by one valid frame, chunked in
\* any way, yields exactly that frame: nothing before its last byte has
\* been read, the frame alone from then on, with nothing left over.
C34_TrimKeepsArrivingFrame ==
    (GarbageThenFrame(stream) /\ NoMarkerByte(GarbageOf(stream))) =>
        IF StreamDone
        THEN /\ packets = <<LastN(stream, PACKET_LENGTH)>>
             /\ delivered = <<ParsePacket(LastN(stream, PACKET_LENGTH))>>
             /\ buffer = <<>>
        ELSE packets = <<>> /\ delivered = <<>>

\* more than a frame length of noise without a byte 0xD2, then the frame,
\* all read and the frame out
C34_Witness ==
    /\ StreamDone
    /\ GarbageThenFrame(stream)
    /\ NoMarkerByte(GarbageOf(stream))
    /\ Len(GarbageOf(stream)) > PACKET_LENGTH
    /\ packets = <<LastN(stream, PACKET_LENGTH)>>
    /\ Len(delivered) = 1

-----------------------------------------------------------------------------
(* The decoder on its own: parse_packet and _combine_signed applied to     *)
(* chosen inputs.                                                          *)

\* v as n big-endian bytes in two's complement
RECURSIVE ToBytes(_, _)
ToBytes(v, n) ==
    IF n = 0 THEN <<>>
    ELSE Append(ToBytes((v % Pow2(8 * n)) \div 256, n - 1), v % 256)

RECURSIVE Concat(_)
Concat(ss) == IF ss = <<>> THEN <<>> ELSE Head(ss) \o Concat(Tail(ss))

EncodeGroups(vals, width) == Concat([i \in 1..Len(vals) |-> ToBytes(vals[i], width)])

Unscale(vals, factor) == [i \in 1..Len(vals) |-> vals[i] \div factor]

\* the 29-byte frame of a sample, by the wire format
EncodeSample(s) ==
    IF s.kind = "emg"
    THEN MakeFrame(TYPE_EMG, s.sequence, EncodeGroups(s.channels_uv, 3))
    ELSE MakeFrame(TYPE_IMU, s.sequence,
                   EncodeGroups(Unscale(s.gyro_rads, GYRO_SCALE)
                                \o Unscale(s.accel_mss, ACCEL_SCALE)
                                \o s.remainder, 2))

\* sequence numbers, raw 24-bit and 16-bit values at and near their extremes
SeqNums == {0, 1, 127, 128, 255}
Raw24 == {-8388608, -1, 0, 1, 8388607}
Raw16 == {-32768, -256, 0, 255, 32767}

\* n values, all v except the k-th, which is w
OneOut(n, k, v, w) == [i \in 1..n |-> IF i = k THEN w ELSE v]

EmgSamples ==
    {[kind |-> "emg", sequence |-> q, channels_uv |-> OneOut(8, k, v, w)] :
        q \in SeqNums, k \in 1..8, v \in Raw24, w \in Raw24}

ImuSampleOf(q, g) ==
    [kind |-> "imu", sequence |-> q,
     gyro_rads |-> Scale(SubSeq(g, 1, 3), GYRO_SCALE),
     accel_mss |-> Scale(SubSeq(g, 4, 6), ACCEL_SCALE),
     remainder |-> SubSeq(g, 7, 12)]

ImuSamples ==
    {ImuSampleOf(q, OneOut(12, k, v, w)) :
        q \in SeqNums, k \in 1..12, v \in Raw16, w \in Raw16}

\* frames that are cut short, too long, have a damaged header or another type
BadTypes == {0, 169, 171, 186, 188, 210, 255}

SetByte(s, i, b) == [s EXCEPT ![i] = b]

OtherRaws ==
    LET fs == SomeFrames
    IN  {Take(f, n) : f \in fs, n \in 0..(PAYLOAD_LENGTH - 1)}
        \cup {f \o <<b>> : f \in fs, b \in {0, 210}}
        \cup {SetByte(f, i, b) : f \in fs, i \in 1..3, b \in {0, 209}}
        \cup {SetByte(f, 4, t) : f \in fs, t \in BadTypes}
        \cup {Drop(f, 1) \o <<0>> : f \in fs}

ByteSamples == {0, 1, 127, 128, 210, 255}

ByteGroups(n) == [1..n -> ByteSamples]

\* the call under study: parse_packet(raw) for an encoded sample or another
\* byte string, or _combine_signed(grp, bits)
ParserInit ==
    /\ stream = <<>>
    /\ SyncInit
    /\ capacity = 1
    /\ channels = 1
    /\ RingInit
    /\ ClsInit /\ EnvInit /\ quietAmp = 0
    /\ LvlInit /\ lvlNoise = 0
    /\ SimInit /\ LoopInit /\ RecInit /\ enable_camera = FALSE /\ BleInit
    /\ combined = <<>>
    /\ \/ /\ sample \in EmgSamples \cup ImuSamples
          /\ raw = EncodeSample(sample)
          /\ parsed = [kind |-> "pending"]
          /\ grp = <<>> /\ bits = 0
       \/ /\ raw \in OtherRaws
          /\ sample = [kind |-> "none"]
          /\ parsed = [kind |-> "pending"]
          /\ grp = <<>> /\ bits = 0
       \/ /\ \E w \in {2, 3} : grp \in ByteGroups(w) /\ bits = 8 * w
          /\ sample = [kind |-> "none"]
          /\ raw = <<>>
          /\ parsed = [kind |-> "none"]

ParsePacketCall ==
    /\ parsed.kind = "pending"
    /\ parsed' = ParsePacket(raw)
    /\ UNCHANGED <<raw, sample, grp, bits, combined, syncVars, recVars, bleVars, ringVars,
                   clsVars, envVars, lvlVars, simVars, loopVars>>

CombineSignedCall ==
    /\ bits # 0
    /\ combined = <<>>
    /\ combined' = <<CombineSigned(grp, bits)>>
    /\ UNCHANGED <<raw, sample, parsed, grp, bits, syncVars, recVars, bleVars, ringVars,
                   clsVars, envVars, lvlVars, simVars, loopVars>>

ParserNext == ParsePacketCall \/ CombineSignedCall

ParserSpec == ParserInit /\ [][ParserNext]_vars

-----------------------------------------------------------------------------
(* Decoder properties                                                      *)

WasParsed == parsed.kind \notin {"none", "pending"}

\* C5: parse_packet fails exactly when the input is not 29 bytes long, or
\* does not begin with the marker, or its type byte (offset 3) is neither
\* 0xAA nor 0xBB; every other input yields a sample.
C5_ErrorExactlyWhen ==
    WasParsed =>
        /\ parsed.kind \in {"error", "emg", "imu"}
        /\ parsed.kind = "error" <=>
              \/ Len(raw) # 29
              \/ SubSeq(raw, 1, 3) # <<210, 210, 210>>
              \/ raw[4] \notin {170, 187}

\* a 29-byte input with the marker and an unknown type byte was rejected
C5_Witness ==
    /\ WasParsed
    /\ Len(raw) = 29
    /\ SubSeq(raw, 1, 3) = <<210, 210, 210>>
    /\ raw[4] = 171
    /\ parsed.kind = "error"

\* the signed value of the big-endian unsigned u of the given width
TwosComplement(u, width) == IF u < 2 ^ (width - 1) THEN u ELSE u - 2 ^ width

\* C6: for a type 0xAA frame the result carries the sequence byte unchanged
\* and exactly 8 channels, channel i being the signed 24-bit big-endian value
\* of payload bytes 3i..3i+2, unscaled.
C6_EmgChannels ==
    (WasParsed /\ Len(raw) = 29 /\ SubSeq(raw, 1, 3) = <<210, 210, 210>> /\ raw[4] = 170) =>
        /\ parsed.kind = "emg"
        /\ parsed.sequence = raw[5]
        /\ Len(parsed.channels_uv) = 8
        /\ \A i \in 0..7 :
              parsed.channels_uv[i + 1] =
                  TwosComplement(raw[6 + 3 * i] * 65536 + raw[7 + 3 * i] * 256
                                 + raw[8 + 3 * i], 24)

\* an EMG frame with a negative and a positive channel was decoded
C6_Witness ==
    /\ parsed.kind = "emg"
    /\ parsed.sequence = 255
    /\ \E i, j \in 1..8 :
          parsed.channels_uv[i] = -8388608 /\ parsed.channels_uv[j] = 8388607

\* C7: for a type 0xBB frame the 24 payload bytes are 12 signed 16-bit
\* big-endian groups: groups 0-2 times one factor are the 3 angular rates,
\* groups 3-5 times another factor the 3 accelerations, and groups 6-11,
\* unscaled and in order, the remainder.
C7_ImuGroups ==
    (WasParsed /\ Len(raw) = 29 /\ SubSeq(raw, 1, 3) = <<210, 210, 210>> /\ raw[4] = 187) =>
        LET g == [i \in 0..11 |->
                    TwosComplement(raw[6 + 2 * i] * 256 + raw[7 + 2 * i], 16)]
        IN  /\ parsed.kind = "imu"
            /\ Len(parsed.gyro_rads) = 3
            /\ Len(parsed.accel_mss) = 3
            /\ Len(parsed.remainder) = 6
            /\ \A i \in 0..2 : parsed.gyro_rads[i + 1] = g[i] * GYRO_SCALE
            /\ \A i \in 0..2 : parsed.accel_mss[i + 1] = g[3 + i] * ACCEL_SCALE
            /\ \A i \in 0..5 : parsed.remainder[i + 1] = g[6 + i]
            /\ GYRO_SCALE # ACCEL_SCALE

\* an IMU frame with a nonzero acceleration and a negative remainder value
C7_Witness ==
    /\ parsed.kind = "imu"
    /\ parsed.accel_mss[2] = 32767 * ACCEL_SCALE
    /\ parsed.remainder[6] = -32768
    /\ parsed.gyro_rads[1] = -32768 * GYRO_SCALE

WasCombined == combined # <<>>

Unsigned(g) ==
    IF Len(g) = 2 THEN g[1] * 256 + g[2]
    ELSE g[1] * 65536 + g[2] * 256 + g[3]

\* C8: for widths 16 and 24, _combine_signed returns the exact two's
\* complement value of the group: u if u < 2^(bits-1), otherwise u - 2^bits;
\* 0x800000 gives -8388608, 0x7FFFFF gives 8388607, and the result lies in
\* [-2^(bits-1), 2^(bits-1) - 1].
C8_CombineExact ==
    WasCombined =>
        /\ bits \in {16, 24}
        /\ combined[1] = TwosComplement(Unsigned(grp), bits)
        /\ combined[1] >= -(2 ^ (bits - 1))
        /\ combined[1] <= 2 ^ (bits - 1) - 1
        /\ grp = <<128, 0, 0>> => combined[1] = -8388608
        /\ grp = <<127, 255, 255>> => combined[1] = 8388607

C8_Witness ==
    /\ bits = 24
    /\ grp = <<128, 0, 0>>
    /\ combined = <<-8388608>>

\* C9: decoding the frame that encodes a sample returns that sample, for
\* both kinds, every raw value that fits its width and every sequence number.
C9_RoundTrip ==
    (sample.kind # "none" /\ WasParsed) => parsed = sample

\* a motion sample with an extreme negative raw value came back unchanged
C9_Witness ==
    /\ sample.kind = "imu"
    /\ sample.remainder[1] = -32768
    /\ sample.gyro_rads[3] = 32767 * GYRO_SCALE
    /\ parsed = sample

-----------------------------------------------------------------------------
(* buffers.py: EmgRingBuffer                                               *)
(*                                                                         *)
(* A sample value is a Python float (a double); _data is a float32 array,  *)
(* so storing a value rounds it to 24 significant bits.  A double x is     *)
(* represented here by the integer x * 2^16: rounding to 24 significant    *)
(* bits is the same operation on that integer.  The decoder's values are   *)
(* whole microvolts below 2^23 in magnitude, which float32 holds exactly.  *)

F32_SIGNIFICAND == 24

Abs(n) == IF n < 0 THEN -n ELSE n

RECURSIVE BitLen(_)
BitLen(n) == IF n = 0 THEN 0 ELSE 1 + BitLen(n \div 2)

\* numpy's conversion of a double to float32: round to nearest, ties to even
F32(x) ==
    IF BitLen(Abs(x)) <= F32_SIGNIFICAND THEN x
    ELSE LET unit == Pow2(BitLen(Abs(x)) - F32_SIGNIFICAND)
             q == Abs(x) \div unit
             r == Abs(x) % unit
             up == 2 * r > unit \/ (2 * r = unit /\ q % 2 = 1)
             m == (IF up THEN q + 1 ELSE q) * unit
         IN  IF x < 0 THEN -m ELSE m

F32Vector(values) == [i \in 1..Len(values) |-> F32(values[i])]

MaxCapacity == 3
MaxExtra == 2

ChannelCounts == {1, 2}

\* 3 * 2^-16, which float32 holds exactly, and 256 + 2^-16, which it does not
SampleValues == {3, 16777217}

Vectors(n) == [1..n -> SampleValues]

\* lines 23-24, from the index after the increment
FilledNow(idx, cap) == idx = 0

\* the two segments in storage order
SnapshotOf_Unrotated(d, idx, full, cap) ==
    [i \in 1..(IF full THEN cap ELSE idx) |-> d[i - 1]]

\* lines 28-33: the columns, oldest first
SnapshotOf(d, idx, full, cap) ==
    IF ~full THEN [i \in 1..idx |-> d[i - 1]]
    ELSE [i \in 1..(cap - idx) |-> d[idx + i - 1]] \o [i \in 1..idx |-> d[i - 1]]

RingSpecInit ==
    /\ stream = <<>>
    /\ SyncInit
    /\ ParseInit
    /\ capacity \in 1..MaxCapacity
    /\ channels \in ChannelCounts
    /\ RingInit
    /\ ClsInit /\ EnvInit /\ quietAmp = 0
    /\ LvlInit /\ lvlNoise = 0
    /\ SimInit /\ LoopInit /\ RecInit /\ enable_camera = FALSE /\ BleInit

\* an append that stores the vector and moves the cursor before it looks at
\* the vector's length
RingAppend_WriteFirst(values) ==
    /\ Len(appended) < capacity + MaxExtra
    /\ data' = [data EXCEPT ![index] = F32Vector(values)]
    /\ index' = (index + 1) % capacity
    /\ filled' = (filled \/ FilledNow((index + 1) % capacity, capacity))
    /\ IF Len(values) # channels
       THEN /\ lastOp' = "append_error"
            /\ UNCHANGED appended
       ELSE /\ appended' = Append(appended, values)
            /\ lastOp' = "append"
    /\ lastValues' = values
    /\ snap' = <<>>
    /\ UNCHANGED <<capacity, channels, cleared, held, syncVars, parseVars, recVars, bleVars,
                   clsVars, envVars, lvlVars, simVars, loopVars>>

\* append(values), lines 18-24: the length test raises ValueError before
\* anything is stored
RingAppend(values) ==
    /\ Len(appended) < capacity + MaxExtra
    /\ IF Len(values) # channels
       THEN /\ lastOp' = "append_error"
            /\ UNCHANGED <<data, index, filled, appended>>
       ELSE /\ data' = [data EXCEPT ![index] = F32Vector(values)]
            /\ index' = (index + 1) % capacity
            /\ filled' = (filled \/ FilledNow((index + 1) % capacity, capacity))
            /\ appended' = Append(appended, values)
            /\ lastOp' = "append"
    /\ lastValues' = values
    /\ snap' = <<>>
    /\ UNCHANGED <<capacity, channels, cleared, held, syncVars, parseVars, recVars, bleVars,
                   clsVars, envVars, lvlVars, simVars, loopVars>>

\* the array object snapshot() returns: before the buffer has filled, the
\* basic slice self._data[:, :self._index] of line 29, which shares the
\* storage of _data; afterwards the new array np.concatenate builds
Returned(d, idx, full, cap) ==
    [cols |-> IF full THEN cap ELSE idx, view |-> ~full,
     taken |-> SnapshotOf(d, idx, full, cap)]

\* what an array reads as, given the storage d it may share
ContentsOf(a, d) ==
    IF a.view THEN [i \in 1..a.cols |-> d[i - 1]] ELSE a.taken

\* snapshot(), lines 26-33
RingSnapshot ==
    /\ snap' = SnapshotOf(data, index, filled, capacity)
    /\ lastOp' = "snapshot"
    /\ lastValues' = <<>>
    /\ UNCHANGED <<capacity, channels, data, index, filled, appended, cleared,
                   held, syncVars, parseVars, recVars, bleVars, clsVars, envVars, lvlVars, simVars,
                   loopVars>>

\* snapshot(), lines 26-33, by a caller that keeps the array it gets
RingSnapshotKept ==
    /\ snap' = SnapshotOf(data, index, filled, capacity)
    /\ held' = Returned(data, index, filled, capacity)
    /\ lastOp' = "snapshot"
    /\ lastValues' = <<>>
    /\ UNCHANGED <<capacity, channels, data, index, filled, appended, cleared,
                   syncVars, parseVars, recVars, bleVars, clsVars, envVars, lvlVars, simVars,
                   loopVars>>

\* a clear that zeroes the storage and the cursor but leaves _filled set
RingClear_KeepFilled ==
    /\ data' = [c \in 0..(capacity - 1) |-> [ch \in 1..channels |-> 0]]
    /\ index' = 0
    /\ filled' = filled
    /\ appended' = <<>>
    /\ snap' = <<>>
    /\ lastOp' = "clear"
    /\ lastValues' = <<>>
    /\ cleared' = TRUE
    /\ UNCHANGED <<capacity, channels, held, syncVars, parseVars, recVars, bleVars,
                   clsVars, envVars, lvlVars, simVars, loopVars>>

\* clear(), lines 35-38
RingClear ==
    /\ data' = [c \in 0..(capacity - 1) |-> [ch \in 1..channels |-> 0]]
    /\ index' = 0
    /\ filled' = FALSE
    /\ appended' = <<>>
    /\ snap' = <<>>
    /\ lastOp' = "clear"
    /\ lastValues' = <<>>
    /\ cleared' = TRUE
    /\ UNCHANGED <<capacity, channels, held, syncVars, parseVars, recVars, bleVars,
                   clsVars, envVars, lvlVars, simVars, loopVars>>

RingNext ==
    \/ \E n \in ChannelCounts : \E values \in Vectors(n) : RingAppend(values)
    \/ RingSnapshot
    \/ RingClear

RingSpec == RingSpecInit /\ [][RingNext]_vars

\* a one-channel buffer whose caller keeps snapshots while it goes on
\* appending and clearing
KeptInit ==
    /\ stream = <<>>
    /\ SyncInit
    /\ ParseInit
    /\ capacity \in 1..MaxCapacity
    /\ channels = 1
    /\ RingInit
    /\ ClsInit /\ EnvInit /\ quietAmp = 0
    /\ LvlInit /\ lvlNoise = 0
    /\ SimInit /\ LoopInit /\ RecInit /\ enable_camera = FALSE /\ BleInit

KeptNext ==
    \/ \E values \in Vectors(1) : RingAppend(values)
    \/ RingSnapshot
    \/ RingSnapshotKept
    \/ RingClear

KeptSpec == KeptInit /\ [][KeptNext]_vars

-----------------------------------------------------------------------------
(* Rolling channel buffer properties                                       *)

\* C10 as stated: after capacity + k appends (k >= 1), snapshot() returns
\* exactly capacity samples, oldest to newest, equal to the last capacity
\* appended samples.
C10_Original ==
    (lastOp = "snapshot" /\ Len(appended) > capacity) =>
        /\ Len(snap) = capacity
        /\ snap = LastN(appended, capacity)

\* C10 amended: ... equal to the last capacity appended samples, each value
\* as rounded to single precision (float32) when it was stored.
C10_LastCapacityRounded ==
    (lastOp = "snapshot" /\ Len(appended) > capacity) =>
        /\ Len(snap) = capacity
        /\ \A i \in 1..capacity : \A ch \in 1..channels :
              snap[i][ch] = F32(appended[Len(appended) - capacity + i][ch])

\* a buffer of capacity 3 snapshotted after 5 appends of two channels, the
\* cursor in the middle of the storage and a stored value rounded
C10_Witness ==
    /\ lastOp = "snapshot"
    /\ capacity = 3
    /\ channels = 2
    /\ Len(appended) = 5
    /\ index = 2
    /\ appended[2] # appended[5]
    /\ appended[3] # appended[4]
    /\ appended[4] # appended[5]
    /\ appended[5][1] = 16777217
    /\ snap = <<F32Vector(appended[3]), F32Vector(appended[4]), F32Vector(appended[5])>>
    /\ snap[3][1] = 16777216

\* C11: after construction or clear(), n appends (0 <= n <= capacity) followed
\* by snapshot() return exactly those n samples in append order, and right
\* after clear() the buffer is empty, so nothing appended before is returned.
C11_Original ==
    /\ (lastOp = "snapshot" /\ Len(appended) <= capacity) => snap = appended
    /\ lastOp = "clear" => SnapshotOf(data, index, filled, capacity) = <<>>

\* C11 amended: ... return those n samples in append order, each value as
\* rounded to single precision (float32) when it was stored.
C11_FirstAppendsRounded ==
    /\ (lastOp = "snapshot" /\ Len(appended) <= capacity) =>
           snap = [i \in 1..Len(appended) |-> F32Vector(appended[i])]
    /\ lastOp = "clear" => SnapshotOf(data, index, filled, capacity) = <<>>

\* a buffer of capacity 3 that was cleared, then took two different
\* two-channel vectors and returned them, neither of them all zeros
C11_Witness ==
    /\ lastOp = "snapshot"
    /\ cleared
    /\ capacity = 3
    /\ channels = 2
    /\ Len(appended) = 2
    /\ appended[1] = <<3, 16777217>>
    /\ appended[2] = <<16777217, 3>>
    /\ snap = <<<<3, 16777216>>, <<16777216, 3>>>>

\* C12: append() with a vector whose length is not the channel count raises
\* the shape error and leaves storage, cursor and fill flag as they were, so
\* the next snapshot() equals the previous one; a vector of the right length
\* is stored.
C12_ShapeErrorNoChange ==
    [][/\ (lastOp' = "append_error") =>
              /\ Len(lastValues') # channels
              /\ data' = data /\ index' = index /\ filled' = filled
              /\ SnapshotOf(data', index', filled', capacity')
                     = SnapshotOf(data, index, filled, capacity)
       /\ (lastOp' = "append") => Len(lastValues') = channels]_vars

\* C31: snapshot() leaves storage, cursor and fill flag as they were, and an
\* array that snapshot() returned reads the same after every later append()
\* and clear() as when it was returned.
C31_SnapshotIndependent ==
    [][/\ lastOp' = "snapshot" =>
              (data' = data /\ index' = index /\ filled' = filled)
       /\ held'.cols >= 0 => ContentsOf(held', data') = held'.taken]_vars

\* a one-channel vector refused by a two-channel buffer that already holds
\* two samples
C12_Witness ==
    /\ lastOp = "append_error"
    /\ channels = 2
    /\ Len(lastValues) = 1
    /\ Len(appended) = 2
    /\ index = 2

-----------------------------------------------------------------------------
(* Signal quality classifier: MainWindow._update_channel_indicator         *)
(*                                                                         *)
(* Python floats are fixed-point integers here: a value x stands for       *)
(* x / FP microvolts, so 100 uV is 100 * FP.                               *)

FP == 1000
NOISE_MINIMUM == 100
NEVER_THRESHOLD == 999999

Max2(a, b) == IF a >= b THEN a ELSE b
Min2(a, b) == IF a <= b THEN a ELSE b

\* a floor of 10 uV
NoiseBaseline_LowFloor(noise) == Max2(noise, 10 * FP)

\* a floor that is not applied
NoiseBaseline_NoFloor(noise) == noise

\* noise_baseline = max(self._channel_noise_level[channel_idx], 100)
NoiseBaseline(noise) == Max2(noise, NOISE_MINIMUM * FP)

\* the thresholds table, level -> (falling threshold, rising threshold)
Thresholds(nb) ==
    [k \in 0..4 |->
        CASE k = 0 -> <<0, nb * 2>>
          [] k = 1 -> <<(nb * 3) \div 2, nb * 4>>
          [] k = 2 -> <<(nb * 7) \div 2, nb * 7>>
          [] k = 3 -> <<(nb * 13) \div 2, nb * 12>>
          [] k = 4 -> <<nb * 11, NEVER_THRESHOLD * FP>>]

\* the falling chain of _update_channel_indicator, lines 783-797; it reads
\* the rising column thresholds[k][1] only
FallTo(cur, strength, th) ==
    IF strength < th[0][2] THEN 0
    ELSE IF strength < th[1][2] THEN (IF cur >= 2 THEN 1 ELSE cur)
    ELSE IF strength < th[2][2] THEN (IF cur >= 3 THEN 2 ELSE cur)
    ELSE IF strength < th[3][2] THEN (IF cur >= 4 THEN 3 ELSE cur)
    ELSE cur

\* an update that rises whenever the strength reaches a rising threshold,
\* the top level included
UpdateLevel_NoCap(cur, strength, noise) ==
    LET th == Thresholds(NoiseBaseline(noise))
    IN  IF strength >= th[Min2(cur, 3)][2] THEN cur + 1
        ELSE FallTo(cur, strength, th)

\* an update that thresholds the strength afresh, whatever the current level
UpdateLevel_Jump(cur, strength, noise) ==
    LET th == Thresholds(NoiseBaseline(noise))
    IN  IF strength < th[0][2] THEN 0
        ELSE IF strength < th[1][2] THEN 1
        ELSE IF strength < th[2][2] THEN 2
        ELSE IF strength < th[3][2] THEN 3
        ELSE 4

\* an update whose rising tests read the falling column of the table
UpdateLevel_FallColumn(cur, strength, noise) ==
    LET th == Thresholds(NoiseBaseline(noise))
    IN  IF cur = 0 /\ strength >= th[0][1] THEN 1
        ELSE IF cur = 1 /\ strength >= th[1][1] THEN 2
        ELSE IF cur = 2 /\ strength >= th[2][1] THEN 3
        ELSE IF cur = 3 /\ strength >= th[3][1] THEN 4
        ELSE FallTo(cur, strength, th)

\* an update that falls one level at a time
UpdateLevel_StepDown(cur, strength, noise) ==
    LET th == Thresholds(NoiseBaseline(noise))
    IN  IF cur = 0 /\ strength >= th[0][2] THEN 1
        ELSE IF cur = 1 /\ strength >= th[1][2] THEN 2
        ELSE IF cur = 2 /\ strength >= th[2][2] THEN 3
        ELSE IF cur = 3 /\ strength >= th[3][2] THEN 4
        ELSE IF FallTo(cur, strength, th) < cur THEN cur - 1
        ELSE cur

\* _update_channel_indicator, lines 758-810: the new _channel_current_state
UpdateLevel(cur, strength, noise) ==
    LET th == Thresholds(NoiseBaseline(noise))
    IN  IF cur = 0 /\ strength >= th[0][2] THEN 1
        ELSE IF cur = 1 /\ strength >= th[1][2] THEN 2
        ELSE IF cur = 2 /\ strength >= th[2][2] THEN 3
        ELSE IF cur = 3 /\ strength >= th[3][2] THEN 4
        ELSE FallTo(cur, strength, th)

-----------------------------------------------------------------------------
(* One channel's indicator under a sequence of updates                     *)

MaxStreak == 3
MaxHalves == 26

\* calibrated noise levels: silent, below the minimum, at it, above it
NoiseLevels == {0, 50 * FP, NOISE_MINIMUM * FP, 250 * FP}

\* strengths: every half multiple of the noise baseline up to MaxHalves / 2,
\* one unit below each rising threshold, and the table's last entry
Strengths(noise) ==
    LET nb == NoiseBaseline(noise)
    IN  {(m * nb) \div 2 : m \in 0..MaxHalves}
            \cup {m * nb - 1 : m \in {2, 4, 7, 12}}
            \cup {NEVER_THRESHOLD * FP}

LevelInit ==
    /\ stream = <<>>
    /\ SyncInit
    /\ ParseInit
    /\ capacity = 1
    /\ channels = 1
    /\ RingInit
    /\ ClsInit /\ EnvInit /\ quietAmp = 0
    /\ LvlInit
    /\ lvlNoise \in NoiseLevels
    /\ SimInit /\ LoopInit /\ RecInit /\ enable_camera = FALSE /\ BleInit

IndicatorUpdate(strength) ==
    /\ lvlState' = UpdateLevel(lvlState, strength, lvlNoise)
    /\ lvlPrev' = lvlState
    /\ lvlStrength' = strength
    /\ lvlStreak' = IF strength = 3 * NoiseBaseline(lvlNoise)
                    THEN Min2(lvlStreak + 1, MaxStreak)
                    ELSE 0
    /\ UNCHANGED <<lvlNoise, syncVars, parseVars, recVars, bleVars, ringVars, clsVars, envVars,
                   simVars, loopVars>>

LevelNext == \E strength \in Strengths(lvlNoise) : IndicatorUpdate(strength)

LevelSpec == LevelInit /\ [][LevelNext]_vars

\* the noise floor the thresholds are multiples of
LvlFloor == NoiseBaseline(lvlNoise)
LvlUpdated == lvlStrength >= 0

\* C15: one update raises the level by at most one step, however large the
\* strength.
C15_RiseAtMostOne == LvlUpdated => lvlState <= lvlPrev + 1

\* a channel at level 1 given a strength beyond every rising threshold
C15_Witness ==
    /\ lvlPrev = 1
    /\ lvlStrength >= 12 * LvlFloor
    /\ lvlState = 2

\* C16: at the 1/2 boundary a level-1 channel rises to 2 when the strength
\* reaches 4 x the noise floor, a level-2 channel falls only when the strength
\* is below 1.5 x the noise floor, and a strength from 1.5 x up to 4 x leaves a
\* level-2 channel at level 2.
C16_Hysteresis ==
    LvlUpdated =>
        /\ (lvlPrev = 1 /\ lvlStrength >= 4 * LvlFloor) => lvlState = 2
        /\ (lvlPrev = 2 /\ lvlState < 2) => 2 * lvlStrength < 3 * LvlFloor
        /\ (lvlPrev = 2 /\ 2 * lvlStrength >= 3 * LvlFloor
                /\ lvlStrength < 4 * LvlFloor) => lvlState = 2

\* C17 as stated: updates at exactly 3 x the noise floor drive the channel to
\* level 2, and it falls back to 0 only below the level-1 falling threshold.
C17_Original ==
    /\ lvlStreak >= 2 => lvlState = 2
    /\ (LvlUpdated /\ lvlPrev >= 1 /\ lvlState = 0) => lvlStrength < 2 * LvlFloor

\* C17 amended: every update at exactly 3 x the noise floor leaves the channel
\* at level 1, and a channel above level 0 falls back to 0 only on an update
\* whose strength is below 2 x the noise floor.
C17_ThreeTimesIsLevelOne ==
    /\ lvlStreak >= 1 => lvlState = 1
    /\ (LvlUpdated /\ lvlPrev >= 1 /\ lvlState = 0) => lvlStrength < 2 * LvlFloor

\* the third update in a row at 3 x a calibrated noise level above the minimum
C17_Witness ==
    /\ lvlStreak = 3
    /\ lvlNoise > NOISE_MINIMUM * FP
    /\ lvlStrength = 3 * lvlNoise
    /\ lvlPrev = 1
    /\ lvlState = 1

RiseMultiple(k) == CASE k = 0 -> 2 [] k = 1 -> 4 [] k = 2 -> 7 [] OTHER -> 12

\* C30: an update raises a channel below level 4 exactly when the strength
\* has reached 2, 4, 7 or 12 x the floored noise floor, by its level; for a
\* calibrated noise level below 100 that is at 200, 400, 700 and 1200.
C30_ThresholdsOnFlooredNoise ==
    LvlUpdated =>
        /\ lvlPrev <= 3 =>
               ((lvlState = lvlPrev + 1)
                    <=> (lvlStrength >= RiseMultiple(lvlPrev) * LvlFloor))
        /\ (lvlPrev <= 3 /\ lvlNoise < NOISE_MINIMUM * FP) =>
               ((lvlState = lvlPrev + 1)
                    <=> (lvlStrength >= RiseMultiple(lvlPrev) * NOISE_MINIMUM * FP))

\* a channel calibrated at 50 that rises from level 3 at a strength of 1200
C30_Witness ==
    /\ lvlNoise = 50 * FP
    /\ lvlPrev = 3
    /\ lvlStrength = 1200 * FP
    /\ lvlState = 4

-----------------------------------------------------------------------------
(* Signal quality classifier: MainWindow._handle_emg_sample                *)

INITIALIZATION_SAMPLES == 500
SETTLE_PACKETS == 50
RECAL_INTERVAL == 6000
UPDATE_EVERY == 5
ALPHA_INIT == 10
ALPHA_FAST == 50
ALPHA_SLOW == 500
ALPHA_HOLD == 10000

\* n / d rounded to the nearest unit
RoundDiv(n, d) == (2 * n + d) \div (2 * d)

\* alpha * ch_value + (1 - alpha) * baseline, with alpha = 1 / den
Ema(den, v, b) == b + RoundDiv(v - b, den)

\* deviation * 0.7 + change_rate * 0.3, lines 634-636
CalibrationActivity(v, b, last) == RoundDiv(7 * Abs(v - b) + 3 * Abs(v - last), 10)

\* the adaptive smoothing factor of lines 684-692
SteadyAlpha(deviation, noise) ==
    IF deviation < noise * 2 THEN ALPHA_FAST
    ELSE IF deviation < noise * 5 THEN ALPHA_SLOW
    ELSE ALPHA_HOLD

\* an indicator refresh on every tenth packet
UpdateDue_Tenth(count) == count % (2 * UPDATE_EVERY) = 0

\* an indicator refresh on every packet
UpdateDue_Every(count) == TRUE

\* if self._packet_count % 5 == 0
UpdateDue(count) == count % UPDATE_EVERY = 0

\* a recalibration that does not look at the channel states
AllIdle_Any(states) == TRUE

\* all(state == 0 for state in self._channel_current_state)
AllIdle(states) == \A i \in DOMAIN states : states[i] = 0

\* a recalibration test that compares the packet count alone
RecalDue_CountOnly(count, reset) == count > RECAL_INTERVAL

\* if self._packet_count - self._last_baseline_reset > 6000
RecalDue(count, reset) == count - reset > RECAL_INTERVAL

-----------------------------------------------------------------------------
(* The source: a resting signal of alternating sign, bursts of constant    *)
(* amplitude on channel 1 that may start at the sample numbers BurstStarts,*)
(* and, from one of those sample numbers or after a burst, a value held at *)
(* the channel's baseline.                                                 *)

MaxTicks == 7560
BurstLen == 30
MaxDrops == 1
QuietAmps == {0, 300}
BurstAmps == {300, 500, 6000}
BurstStarts == {505, 6490, 7010}
DropTicks == {300, 520}

EnvMoves ==
    IF mode = "burst" /\ burstLeft > 0
    THEN {[mode |-> "burst", left |-> burstLeft - 1, amp |-> burstAmp]}
    ELSE IF mode = "burst"
    THEN {[mode |-> t, left |-> 0, amp |-> 0] : t \in {"quiet", "hold"}}
    ELSE IF mode = "quiet" /\ (tick + 1) \in BurstStarts
    THEN {[mode |-> t, left |-> 0, amp |-> 0] : t \in {"quiet", "hold"}}
            \cup {[mode |-> "burst", left |-> BurstLen - 1, amp |-> a] : a \in BurstAmps}
    ELSE {[mode |-> mode, left |-> 0, amp |-> 0]}

Resting(t) == IF t % 2 = 0 THEN quietAmp * FP ELSE -(quietAmp * FP)

\* sample.channels_uv of the sample numbered t under the move m
ChannelsUv(m, t) ==
    [i \in ClsChannels |->
        IF i # 1 THEN -Resting(t)
        ELSE IF m.mode = "burst" THEN m.amp * FP
        ELSE IF m.mode = "hold" THEN channel_baseline[1]
        ELSE Resting(t)]

ClassifierInit ==
    /\ stream = <<>>
    /\ SyncInit
    /\ ParseInit
    /\ capacity = 1
    /\ channels = 1
    /\ RingInit
    /\ ClsInit
    /\ EnvInit
    /\ quietAmp \in QuietAmps
    /\ LvlInit /\ lvlNoise = 0
    /\ SimInit /\ LoopInit /\ RecInit /\ enable_camera = FALSE /\ BleInit

\* _handle_emg_sample, lines 622-655: a packet of the initialization phase
Calibrating(values, count) ==
    LET base == [i \in ClsChannels |->
                    Ema(ALPHA_INIT, values[i], channel_baseline[i])]
    IN  /\ packet_count' = count
        /\ channel_baseline' = base
        /\ phaseSum' =
               [i \in ClsChannels |->
                   IF count > SETTLE_PACKETS
                   THEN phaseSum[i]
                            + CalibrationActivity(values[i], base[i],
                                                  channel_last_values[i])
                   ELSE phaseSum[i]]
        /\ calSamples' = calSamples + 1
        /\ sinceCal' = sinceCal
        /\ channel_noise_level' =
               [i \in ClsChannels |->
                   IF count > SETTLE_PACKETS
                   THEN channel_noise_level[i]
                            + CalibrationActivity(values[i], base[i],
                                                  channel_last_values[i])
                   ELSE channel_noise_level[i]]
        /\ channel_last_values' = values
        /\ channel_activity' = <<>>
        /\ lastStep' = "calibrating"
        /\ UNCHANGED <<baseline_initialized, channel_current_state,
                       last_baseline_reset>>

\* lines 669-675: the periodic recalibration taken
Recalibrate(noise, reset) ==
    /\ baseline_initialized' = FALSE
    /\ packet_count' = 0
    /\ channel_noise_level' = noise
    /\ last_baseline_reset' = reset
    /\ channel_activity' = <<>>
    /\ lastStep' = "recalibrate"
    /\ phaseSum' = [i \in ClsChannels |-> 0]
    /\ calSamples' = 0
    /\ sinceCal' = sinceCal
    /\ UNCHANGED <<channel_baseline, channel_last_values, channel_current_state>>

\* lines 677-706: normal operation
Steady(values, count, noise, reset) ==
    LET activity == [i \in ClsChannels |-> Abs(values[i] - channel_baseline[i])]
    IN  /\ baseline_initialized' = TRUE
        /\ packet_count' = count
        /\ channel_noise_level' = noise
        /\ last_baseline_reset' = reset
        /\ channel_baseline' =
               [i \in ClsChannels |->
                   Ema(SteadyAlpha(activity[i], noise[i]), values[i],
                       channel_baseline[i])]
        /\ channel_last_values' = values
        /\ channel_current_state' =
               IF UpdateDue(count)
               THEN [i \in ClsChannels |->
                        UpdateLevel(channel_current_state[i], activity[i], noise[i])]
               ELSE channel_current_state
        /\ channel_activity' = activity
        /\ lastStep' = "steady"
        /\ sinceCal' = IF baseline_initialized THEN sinceCal + 1 ELSE 0
        /\ UNCHANGED <<phaseSum, calSamples>>

\* _handle_emg_sample(sample), lines 594-743, for sample.channels_uv = values
HandleEmgSample(values) ==
    LET count == packet_count + 1
    IN  IF ~baseline_initialized /\ count <= INITIALIZATION_SAMPLES
        THEN Calibrating(values, count)
        ELSE LET finish == ~baseline_initialized
                 noise == IF finish
                          THEN [i \in ClsChannels |->
                                   RoundDiv(channel_noise_level[i],
                                            INITIALIZATION_SAMPLES - SETTLE_PACKETS)]
                          ELSE channel_noise_level
                 reset == IF finish THEN count ELSE last_baseline_reset
             IN  IF RecalDue(count, reset) /\ AllIdle(channel_current_state)
                 THEN Recalibrate(noise, reset)
                 ELSE Steady(values, count, noise, reset)

\* a sample delivered by the active device manager
Observe ==
    /\ connected
    /\ tick < MaxTicks
    /\ \E m \in EnvMoves :
           /\ HandleEmgSample(ChannelsUv(m, tick + 1))
           /\ mode' = m.mode
           /\ burstLeft' = m.left
           /\ burstAmp' = m.amp
    /\ tick' = tick + 1
    /\ prev_state' = channel_current_state
    /\ prev_initialized' = baseline_initialized
    /\ UNCHANGED <<connected, quietAmp, drops, syncVars, parseVars, recVars, bleVars, ringVars,
                   lvlVars, simVars, loopVars>>

\* _disconnect_active, lines 1105-1128, with a manager active
Disconnect ==
    /\ connected
    /\ drops < MaxDrops
    /\ tick \in DropTicks
    /\ connected' = FALSE
    /\ packet_count' = 0
    /\ drops' = drops + 1
    /\ prev_state' = channel_current_state
    /\ prev_initialized' = baseline_initialized
    /\ channel_activity' = <<>>
    /\ lastStep' = "disconnect"
    /\ UNCHANGED <<baseline_initialized, channel_baseline, channel_last_values,
                   channel_current_state, channel_noise_level,
                   last_baseline_reset, tick, quietAmp, mode, burstLeft,
                   burstAmp, phaseSum, calSamples, sinceCal, syncVars, parseVars, recVars, bleVars, ringVars, lvlVars, simVars, loopVars>>

\* _on_connect_clicked, lines 1049-1099, the connection succeeding
Connect ==
    /\ ~connected
    /\ connected' = TRUE
    /\ packet_count' = 0
    /\ prev_state' = channel_current_state
    /\ prev_initialized' = baseline_initialized
    /\ channel_activity' = <<>>
    /\ lastStep' = "connect"
    /\ UNCHANGED <<baseline_initialized, channel_baseline, channel_last_values,
                   channel_current_state, channel_noise_level,
                   last_baseline_reset, tick, quietAmp, mode, burstLeft,
                   burstAmp, drops, phaseSum, calSamples, sinceCal, syncVars, parseVars, recVars, bleVars, ringVars, lvlVars, simVars, loopVars>>

ClassifierNext == Observe \/ Disconnect \/ Connect

ClassifierSpec == ClassifierInit /\ [][ClassifierNext]_vars

-----------------------------------------------------------------------------
(* Classifier properties                                                   *)

Levels == 0..4
Handled == lastStep \in {"calibrating", "recalibrate", "steady"}

\* the noise floor channel i's thresholds are multiples of
FloorOf(i) == Max2(channel_noise_level[i], NOISE_MINIMUM * FP)

\* the level a strength stands for: how many of the rising thresholds
\* 2, 4, 7 and 12 x the noise floor it has reached
ImpliedLevel(strength, floor) ==
    Cardinality({m \in {2, 4, 7, 12} : strength >= m * floor})

\* C13: whatever samples, connects, disconnects and recalibrations have
\* happened, every channel's level is one of 0, 1, 2, 3, 4.
C13_LevelsInRange == \A i \in ClsChannels : channel_current_state[i] \in Levels

\* a channel at the top level after a disconnect and a reconnect, kept there
\* by an update whose strength is beyond the last rising threshold
C13_Witness ==
    /\ drops = 1
    /\ lastStep = "steady"
    /\ UpdateDue(packet_count)
    /\ prev_state[1] = 4
    /\ channel_current_state[1] = 4
    /\ channel_activity[1] >= 12 * FloorOf(1)

\* C14: while the classifier is in the calibration phase every channel is at
\* level 0, and no sample handled in that phase changes a channel's level.
C14_CalibrationIdle ==
    /\ ~baseline_initialized => \A i \in ClsChannels : channel_current_state[i] = 0
    /\ (Handled /\ ~prev_initialized) => channel_current_state = prev_state

\* a calibration entered by recalibration, past its settling packets, on a
\* session whose resting signal is not silent
C14_Witness ==
    /\ ~baseline_initialized
    /\ last_baseline_reset > 0
    /\ lastStep = "calibrating"
    /\ packet_count > SETTLE_PACKETS
    /\ quietAmp > 0

\* C18: in steady state a channel at level 0 that is fed the value of its
\* baseline is at level 0 after the sample.
C18_BaselineKeepsIdle ==
    (lastStep = "steady" /\ prev_initialized /\ mode = "hold"
        /\ prev_state[1] = 0) => channel_current_state[1] = 0

\* an indicator update of a silent channel (calibrated noise level 0) held at
\* a baseline that an earlier burst has moved
C18_Witness ==
    /\ lastStep = "steady"
    /\ prev_initialized
    /\ mode = "hold"
    /\ UpdateDue(packet_count)
    /\ channel_noise_level[1] = 0
    /\ channel_baseline[1] # 0
    /\ channel_activity[1] = 0
    /\ prev_state[1] = 0
    /\ channel_current_state[1] = 0

C20_RecalOnlyWhenIdle ==
    [][(baseline_initialized /\ ~baseline_initialized') =>
          /\ lastStep' = "recalibrate"
          /\ (packet_count + 1) - last_baseline_reset > RECAL_INTERVAL
          /\ \A i \in ClsChannels : channel_current_state[i] = 0]_vars

\* a recalibration that had to wait for a burst to end: taken later than the
\* first sample at which the interval had elapsed
C20_Witness ==
    /\ lastStep = "recalibrate"
    /\ drops = 0
    /\ tick > INITIALIZATION_SAMPLES + 1 + RECAL_INTERVAL + 1
    /\ ~baseline_initialized

\* C26: on the sample that ends a calibration phase each channel's noise
\* level is the activity added up in that phase divided by the 450 samples
\* after the settling packets.
C26_FloorFromThisPhase ==
    (lastStep = "steady" /\ ~prev_initialized) =>
        \A i \in ClsChannels :
            channel_noise_level[i] =
                RoundDiv(phaseSum[i], INITIALIZATION_SAMPLES - SETTLE_PACKETS)

C29_RecalAfterInterval ==
    [][/\ (tick' = tick + 1 /\ baseline_initialized
             /\ sinceCal >= RECAL_INTERVAL /\ AllIdle(channel_current_state)) =>
                lastStep' = "recalibrate"
       /\ (tick' = tick + 1 /\ ~baseline_initialized /\ baseline_initialized'
             /\ last_baseline_reset > 0) =>
                calSamples = INITIALIZATION_SAMPLES]_vars

\* C32: right after a connect that follows a disconnect the classifier is in
\* the calibration phase with every level 0 and every noise level 0, and no
\* sample of the new session is classified before the session has handled
\* its first 500 samples.
C32_SessionResets ==
    /\ (lastStep = "connect" /\ drops >= 1) =>
           /\ ~baseline_initialized
           /\ \A i \in ClsChannels :
                  channel_current_state[i] = 0 /\ channel_noise_level[i] = 0
    /\ (lastStep = "steady" /\ drops >= 1) =>
           packet_count > INITIALIZATION_SAMPLES

-----------------------------------------------------------------------------
(* Decode failures in the read loop                                        *)

\* s ends with two 29-byte frames, the second of them valid
EndsWithTwoFrames(s) ==
    /\ Len(s) >= 2 * PACKET_LENGTH
    /\ StartsWith(SubSeq(s, Len(s) - 2 * PACKET_LENGTH + 1, Len(s) - PACKET_LENGTH),
                  HEADER)
    /\ ValidFrame(LastN(s, PACKET_LENGTH))

FirstOfTwo(s) == SubSeq(s, Len(s) - 2 * PACKET_LENGTH + 1, Len(s) - PACKET_LENGTH)
BeforeTwo(s) == Take(s, Len(s) - 2 * PACKET_LENGTH)
SomePacketFails == \E i \in 1..Len(packets) : ~ValidFrame(packets[i])

\* C22 as stated: a frame that fails to decode is dropped alone: whenever an
\* extracted frame has failed, the samples delivered are exactly the extracted
\* frames that decode, and the valid frame that ends the stream, which begins
\* after the first failing frame's 29 bytes, is delivered.
C22_Original ==
    /\ delivered = Decoded(packets)
    /\ (StreamDone /\ EndsWithTwoFrames(stream) /\ SomePacketFails) =>
           /\ delivered # <<>>
           /\ delivered[Len(delivered)] = ParsePacket(LastN(stream, PACKET_LENGTH))

\* C22 amended: the same for a failing frame that is a frame of the stream,
\* extracted in step with it (the bytes before it do not end with 0xD2):
\* it is extracted and dropped, and the valid frame that follows it back to
\* back is extracted and delivered, with nothing left in the accumulator.
C22_FailedFrameDroppedAlone ==
    /\ delivered = Decoded(packets)
    /\ (StreamDone /\ EndsWithTwoFrames(stream) /\ ~ValidFrame(FirstOfTwo(stream))
            /\ ~EndsWithMarkerByte(BeforeTwo(stream))) =>
           /\ packets = <<FirstOfTwo(stream), LastN(stream, PACKET_LENGTH)>>
           /\ delivered = <<ParsePacket(LastN(stream, PACKET_LENGTH))>>
           /\ buffer = <<>>

\* more than a frame of noise, a frame of unknown type and a valid frame, all
\* read: two frames extracted, one sample delivered
C22_Witness ==
    /\ StreamDone
    /\ EndsWithTwoFrames(stream)
    /\ ~ValidFrame(FirstOfTwo(stream))
    /\ Len(BeforeTwo(stream)) > PACKET_LENGTH
    /\ ~EndsWithMarkerByte(BeforeTwo(stream))
    /\ Len(packets) = 2
    /\ Len(delivered) = 1

-----------------------------------------------------------------------------
(* Sequence numbers: the synthetic generators of simulator.py driven by    *)
(* SimulatedDeviceManager._run, and a serial stream whose frames count     *)
(* through 255. A session is either simulated or serial.                   *)

SEQUENCE_MODULUS == 256
IMU_EVERY == 20

\* a counter that is never reduced
NextSequence_NoWrap(sequence) == sequence + 1

\* sequence = (sequence + 1) % 256, simulator.py lines 29 and 45
NextSequence(sequence) == (sequence + 1) % SEQUENCE_MODULUS

\* next(gen): the first call runs to the first yield with sequence = 0, every
\* later call resumes after the yield, advances sequence and yields again
GenNext(gen) ==
    IF ~gen.started THEN [started |-> TRUE, sequence |-> 0]
    ELSE [started |-> TRUE, sequence |-> NextSequence(gen.sequence)]

\* the last two sequence numbers with q added
Noted(seen, q) == IF Len(seen) < 2 THEN Append(seen, q) ELSE <<seen[2], q>>

\* four EMG frames whose sequence bytes pass from 255 to 0
WrapSeqs == <<254, 255, 0, 1>>
WrapStream ==
    Concat([i \in 1..Len(WrapSeqs) |-> MakeFrame(TYPE_EMG, WrapSeqs[i], Rep(1, 24))])

SeqInit ==
    /\ stream \in {<<>>, WrapStream}
    /\ SyncInit
    /\ ParseInit
    /\ capacity = 1
    /\ channels = 1
    /\ RingInit
    /\ ClsInit /\ EnvInit /\ quietAmp = 0
    /\ LvlInit /\ lvlNoise = 0
    /\ SimInit /\ LoopInit /\ RecInit /\ enable_camera = FALSE /\ BleInit

\* SimulatedDeviceManager.connect, sim_device.py lines 30-36, and the start of
\* _run, lines 47-50
SimConnect ==
    /\ stream = <<>>
    /\ ~sim_running
    /\ sim_running' = TRUE
    /\ emg_gen' = [started |-> FALSE, sequence |-> 0]
    /\ imu_gen' = [started |-> FALSE, sequence |-> 0]
    /\ imu_counter' = 0
    /\ UNCHANGED <<sim_yielded, sim_tasks, sim_task, sim_waits, sim_last,
                   sim_quiet, syncVars, parseVars, recVars, bleVars, ringVars, clsVars, envVars,
                   lvlVars, loopVars>>

\* one iteration of _run's loop, sim_device.py lines 51-57
SimIteration ==
    /\ sim_running
    /\ emg_gen' = GenNext(emg_gen)
    /\ imu_counter' = (imu_counter + 1) % IMU_EVERY
    /\ IF imu_counter' = 0
       THEN /\ imu_gen' = GenNext(imu_gen)
            /\ sim_yielded' =
                   [sim_yielded EXCEPT
                       !["emg"] = Noted(@, emg_gen'.sequence),
                       !["imu"] = Noted(@, imu_gen'.sequence)]
       ELSE /\ imu_gen' = imu_gen
            /\ sim_yielded' =
                   [sim_yielded EXCEPT !["emg"] = Noted(@, emg_gen'.sequence)]
    /\ UNCHANGED <<sim_running, sim_tasks, sim_task, sim_waits, sim_last,
                   sim_quiet, syncVars, parseVars, recVars, bleVars, ringVars, clsVars, envVars,
                   lvlVars, loopVars>>

SeqNext == SimConnect \/ SimIteration \/ Next

SeqSpec == SeqInit /\ [][SeqNext]_vars

\* C21: each generator's sequence number is 0 right after 255 and the
\* previous number + 1 otherwise, and the frames of a stream whose sequence
\* bytes pass from 255 to 0 are all delivered, each with its own number.
C21_SequenceWraps ==
    /\ \A k \in {"emg", "imu"} :
           Len(sim_yielded[k]) = 2 =>
               sim_yielded[k][2] = IF sim_yielded[k][1] = 255 THEN 0
                                   ELSE sim_yielded[k][1] + 1
    /\ stream = WrapStream =>
           /\ Len(delivered) = pos \div PACKET_LENGTH
           /\ \A i \in 1..Len(delivered) :
                  /\ delivered[i].kind = "emg"
                  /\ delivered[i].sequence = WrapSeqs[i]

\* the IMU generator has just wrapped, which the EMG generator, called 20
\* times as often, has done many times by then
C21_Witness ==
    /\ sim_yielded["imu"] = <<255, 0>>
    /\ sim_yielded["emg"] = <<19, 20>>

-----------------------------------------------------------------------------
(* SerialDeviceManager: connect, the _read_loop task and disconnect on one *)
(* asyncio event loop. The task runs from one await to the next without    *)
(* interruption; task is "start" (created, not yet run), "sleep" (suspended *)
(* in asyncio.sleep), "spin" (back at the top of the loop without having   *)
(* suspended), "done", "cancelled" or "none". Other coroutines run only     *)
(* while the task does not hold the event loop.                            *)

MaxConnects == 2
ReadSizes == {1, 29, 58}

\* a frame of unknown type and two EMG frames
LoopStream ==
    MakeFrame(0, 7, Rep(128, 24)) \o MakeFrame(TYPE_EMG, 255, Rep(1, 24))
        \o MakeFrame(TYPE_EMG, 0, Rep(2, 24))

\* the while loop of lines 138-169 with its calls of parse_packet and
\* on_packet; raises tells whether the sink raises when it is called
RECURSIVE ProcessBuffer(_, _, _, _)
ProcessBuffer(buf, pkts, dlv, raises) ==
    IF Len(buf) < PACKET_LENGTH
    THEN [buffer |-> buf, packets |-> pkts, delivered |-> dlv, exit |-> "short",
          scan |-> buf]
    ELSE LET r == ScanPass(buf)
         IN  IF r.exit # "packet"
             THEN [buffer |-> r.buffer, packets |-> pkts, delivered |-> dlv,
                   exit |-> r.exit, scan |-> buf]
             ELSE LET p == ParsePacket(r.packet)
                  IN  IF p.kind = "error"
                      THEN ProcessBuffer(r.buffer, Append(pkts, r.packet), dlv, raises)
                      ELSE IF raises
                      THEN [buffer |-> r.buffer, packets |-> Append(pkts, r.packet),
                            delivered |-> dlv, exit |-> "sink_error", scan |-> buf]
                      ELSE ProcessBuffer(r.buffer, Append(pkts, r.packet),
                                         Append(dlv, p), raises)

\* while self._running and self._serial and self._serial.is_open
LoopCondition(running, open) == running /\ open

\* a loop that every exception ends
AfterIteration_AllFatal(outcome) ==
    IF outcome \in {"nodata", "data"} THEN "sleep" ELSE "done"

\* where an iteration leaves the task: the loop ends when its condition is
\* false and on SerialException (lines 174-177); PacketError is caught inside
\* (165-169) and the iteration goes on to the sleep of line 172; any other
\* exception is caught at line 178, after which the next iteration begins
AfterIteration(outcome) ==
    CASE outcome \in {"stopped", "serial_error"} -> "done"
      [] outcome = "sink_error" -> "spin"
      [] OTHER -> "sleep"

Alive == {"start", "sleep", "spin"}

LoopSpecInit ==
    /\ stream = LoopStream
    /\ SyncInit
    /\ ParseInit
    /\ capacity = 1
    /\ channels = 1
    /\ RingInit
    /\ ClsInit /\ EnvInit /\ quietAmp = 0
    /\ LvlInit /\ lvlNoise = 0
    /\ SimInit /\ LoopInit /\ RecInit /\ enable_camera = FALSE /\ BleInit

\* connect(port), lines 55-80, the port opening
SerConnect ==
    /\ task = "none"
    /\ disc # "awaiting"
    /\ connects < MaxConnects
    /\ ser_open' = TRUE
    /\ ser_running' = TRUE
    /\ task' = "start"
    /\ cancel_requested' = FALSE
    /\ lastStatus' = "connected"
    /\ lastIter' = "none"
    /\ connects' = connects + 1
    /\ disc' = "idle"
    /\ returnedAt' = -1
    /\ UNCHANGED <<orphans, syncVars, parseVars, recVars, bleVars, ringVars, clsVars, envVars,
                   lvlVars, simVars>>

\* the task runs one iteration of the while loop of line 113 (from its start,
\* lines 102-111, when it has not run yet)
TaskIterate(outcome, buf, pkts, dlv, exit, scan, read, status) ==
    /\ task' = AfterIteration(outcome)
    /\ lastIter' = outcome
    /\ lastStatus' = status
    /\ buffer' = buf
    /\ packets' = packets \o pkts
    /\ delivered' = delivered \o dlv
    /\ lastExit' = exit
    /\ lastScan' = scan
    /\ pos' = pos + read
    /\ UNCHANGED <<stream, ser_running, ser_open, cancel_requested, disc,
                   connects, returnedAt, orphans, parseVars, recVars, bleVars, ringVars, clsVars, envVars,
                   lvlVars, simVars>>

TaskStepOf(sizes) ==
    /\ task \in Alive
    /\ ~cancel_requested
    /\ LET buf0 == IF task = "start" THEN <<>> ELSE buffer
           status0 == IF task = "start" THEN "waiting" ELSE lastStatus
       IN  IF ~LoopCondition(ser_running, ser_open)
           THEN TaskIterate("stopped", buf0, <<>>, <<>>, lastExit, lastScan, 0, status0)
           ELSE \/ TaskIterate("nodata", buf0, <<>>, <<>>, lastExit, lastScan, 0, status0)
                \/ TaskIterate("serial_error", buf0, <<>>, <<>>, lastExit, lastScan, 0,
                               "error")
                \/ \E n \in sizes : \E raises \in BOOLEAN :
                       /\ pos + n <= Len(stream)
                       /\ \E r \in {ProcessBuffer(buf0 \o SubSeq(stream, pos + 1, pos + n),
                                                  <<>>, <<>>, raises)} :
                              TaskIterate(
                                  IF r.exit = "sink_error" THEN "sink_error"
                                  ELSE IF \E i \in 1..Len(r.packets) :
                                              ~ValidFrame(r.packets[i])
                                  THEN "decode_error"
                                  ELSE "data",
                                  r.buffer, r.packets, r.delivered, r.exit, r.scan,
                                  n, status0)

\* an iteration that finds any of the numbers of bytes ReadSizes waiting
TaskStep == TaskStepOf(ReadSizes)

\* CancelledError is thrown into the suspended task; it is no Exception, so
\* neither handler of the loop catches it
TaskCancelled ==
    /\ task \in {"start", "sleep"}
    /\ cancel_requested
    /\ task' = "cancelled"
    /\ UNCHANGED <<ser_running, ser_open, cancel_requested, disc, lastStatus,
                   lastIter, connects, returnedAt, orphans, syncVars, parseVars, recVars, bleVars, ringVars,
                   clsVars, envVars, lvlVars, simVars>>

\* a disconnect that only waits for the task
DisconnectCall_NoStop ==
    /\ ser_open
    /\ task \notin {"none", "spin"}
    /\ disc # "awaiting"
    /\ disc' = "awaiting"
    /\ UNCHANGED <<ser_running, cancel_requested, ser_open, task, lastStatus,
                   lastIter, connects, returnedAt, orphans, syncVars, parseVars, recVars, bleVars, ringVars,
                   clsVars, envVars, lvlVars, simVars>>

\* disconnect(), lines 82-89: up to the await of the task
DisconnectCall ==
    /\ ser_open
    /\ task \notin {"none", "spin"}
    /\ disc # "awaiting"
    /\ ser_running' = FALSE
    /\ cancel_requested' = (task \in {"start", "sleep"})
    /\ disc' = "awaiting"
    /\ UNCHANGED <<ser_open, task, lastStatus, lastIter, connects, returnedAt,
                   orphans, syncVars, parseVars, recVars, bleVars, ringVars, clsVars, envVars, lvlVars,
                   simVars>>

\* disconnect(), lines 89-98: the task has ended
DisconnectReturn ==
    /\ disc = "awaiting"
    /\ task \in {"done", "cancelled"}
    /\ task' = "none"
    /\ cancel_requested' = FALSE
    /\ ser_open' = FALSE
    /\ lastStatus' = "disconnected"
    /\ disc' = "returned"
    /\ returnedAt' = Len(delivered)
    /\ UNCHANGED <<ser_running, lastIter, connects, orphans, syncVars, parseVars, recVars, bleVars,
                   ringVars, clsVars, envVars, lvlVars, simVars>>

LoopNext == SerConnect \/ TaskStep \/ TaskCancelled \/ DisconnectCall \/ DisconnectReturn

LoopSpec == LoopSpecInit /\ [][LoopNext]_vars

\* the event loop runs every callback that is ready: a cancelled task gets
\* its CancelledError and a coroutine waiting for a finished task resumes
LoopFairSpec ==
    LoopSpec /\ WF_vars(TaskCancelled) /\ WF_vars(DisconnectReturn)

-----------------------------------------------------------------------------
(* Read loop properties                                                    *)

\* C23: the read loop ends by an error only when the serial source raises,
\* and then a status message reports it; an iteration with a decode error
\* or another exception leaves the loop running.
C23_OnlySourceErrorEnds ==
    /\ task = "done" => lastIter \in {"serial_error", "stopped"}
    /\ (lastIter = "serial_error" /\ task # "none") =>
           (task = "done" /\ lastStatus = "error")
    /\ (lastIter \in {"decode_error", "sink_error"} /\ ~cancel_requested
            /\ task # "none") => task \in {"sleep", "spin"}

\* the source fails after the loop has got over a frame that did not decode
C23_Witness ==
    /\ task = "done"
    /\ lastIter = "serial_error"
    /\ lastStatus = "error"
    /\ \E i \in 1..Len(packets) : ~ValidFrame(packets[i])
    /\ Len(delivered) = 1

\* C24: an iteration that does not end the loop suspends on the sleep before
\* the next one begins: the task is never back at the top of the loop
\* without having slept.
C24_NeverBusySpins == task # "spin"

\* C25: after disconnect() has returned the task is gone, the stop flag is
\* down and no sample has been delivered since; and a disconnect() that is
\* waiting for the task does return.
C25_DisconnectStops ==
    /\ [](disc = "returned" =>
            /\ task = "none"
            /\ ~ser_running
            /\ ~ser_open
            /\ Len(delivered) = returnedAt)
    /\ (disc = "awaiting" ~> disc = "returned")

\* disconnect() has returned after a sleeping task that had delivered a
\* sample was cancelled
C25_Witness ==
    /\ disc = "returned"
    /\ returnedAt = 1
    /\ lastIter = "data"
    /\ pos < Len(stream)

-----------------------------------------------------------------------------
(* SerialDeviceManager under any sequence of connect() and disconnect()    *)
(* calls, each call made after the one before it has returned              *)

\* connect(port), lines 55-80, called while _listen_task refers to a task:
\* _serial, _running and _listen_task are overwritten and the earlier task
\* is neither cancelled nor awaited
SerConnectAgain ==
    /\ task # "none"
    /\ disc # "awaiting"
    /\ connects < MaxConnects
    /\ ser_open' = TRUE
    /\ ser_running' = TRUE
    /\ task' = "start"
    /\ orphans' = IF task \in Alive
                  THEN Append(orphans, [pc |-> task, buffer |-> buffer])
                  ELSE orphans
    /\ cancel_requested' = FALSE
    /\ lastStatus' = "connected"
    /\ lastIter' = "none"
    /\ connects' = connects + 1
    /\ disc' = "idle"
    /\ returnedAt' = -1
    /\ UNCHANGED <<syncVars, parseVars, recVars, bleVars, ringVars, clsVars, envVars, lvlVars,
                   simVars>>

\* one iteration of _read_loop by an earlier task: it reads the attributes
\* of the manager as they are now and extends its own local buffer
OrphanIterate(i, outcome, buf, pkts, dlv, exit, scan, read, status) ==
    /\ orphans' = [orphans EXCEPT ![i] = [pc |-> AfterIteration(outcome),
                                          buffer |-> buf]]
    /\ lastStatus' = status
    /\ packets' = packets \o pkts
    /\ delivered' = delivered \o dlv
    /\ lastExit' = exit
    /\ lastScan' = scan
    /\ pos' = pos + read
    /\ UNCHANGED <<stream, buffer, ser_running, ser_open, task, cancel_requested,
                   disc, lastIter, connects, returnedAt, parseVars, recVars, bleVars, ringVars,
                   clsVars, envVars, lvlVars, simVars>>

OrphanStep(i, sizes) ==
    /\ orphans[i].pc \in Alive
    /\ LET buf0 == IF orphans[i].pc = "start" THEN <<>> ELSE orphans[i].buffer
       IN  IF ~LoopCondition(ser_running, ser_open)
           THEN OrphanIterate(i, "stopped", buf0, <<>>, <<>>, lastExit, lastScan, 0,
                              lastStatus)
           ELSE \/ OrphanIterate(i, "nodata", buf0, <<>>, <<>>, lastExit, lastScan, 0,
                                 lastStatus)
                \/ OrphanIterate(i, "serial_error", buf0, <<>>, <<>>, lastExit,
                                 lastScan, 0, "error")
                \/ \E n \in sizes : \E raises \in BOOLEAN :
                       /\ pos + n <= Len(stream)
                       /\ \E r \in {ProcessBuffer(buf0 \o SubSeq(stream, pos + 1, pos + n),
                                                  <<>>, <<>>, raises)} :
                              OrphanIterate(i,
                                  IF r.exit = "sink_error" THEN "sink_error"
                                  ELSE IF \E k \in 1..Len(r.packets) :
                                              ~ValidFrame(r.packets[k])
                                  THEN "decode_error"
                                  ELSE "data",
                                  r.buffer, r.packets, r.delivered, r.exit, r.scan,
                                  n, lastStatus)

\* the port hands over whole frames
FrameReads == {PACKET_LENGTH}

\* a task that has not suspended since its last iteration holds the event
\* loop: nothing else runs until it has
OrphansYielded(except) ==
    \A j \in 1..Len(orphans) : j = except \/ orphans[j].pc # "spin"

ReconnectNext ==
    \/ OrphansYielded(0) /\ TaskStepOf(FrameReads)
    \/ /\ task # "spin"
       /\ \E i \in 1..Len(orphans) : OrphansYielded(i) /\ OrphanStep(i, FrameReads)
    \/ /\ task # "spin" /\ OrphansYielded(0)
       /\ \/ SerConnect
          \/ SerConnectAgain
          \/ TaskCancelled
          \/ DisconnectCall
          \/ DisconnectReturn

ReconnectSpec == LoopSpecInit /\ [][ReconnectNext]_vars

\* the _read_loop tasks that have not ended
AliveTasks ==
    (IF task \in Alive THEN 1 ELSE 0)
        + Cardinality({i \in 1..Len(orphans) : orphans[i].pc \in Alive})

\* C35: whatever connect() and disconnect() calls have been made, at most
\* one _read_loop task has not ended.
C35_OneTaskAlive == AliveTasks <= 1

-----------------------------------------------------------------------------
(* SimulatedDeviceManager: connect() and disconnect() calls interleaved    *)
(* with the _run tasks on one event loop. A _run task runs from one await  *)
(* to the next without interruption: it is "start" (created, not yet run), *)
(* "sleep" (suspended in asyncio.sleep after a sample) or "done".          *)

MaxSimTasks == 3
MaxWaiters == 2

SimAlive == {"start", "sleep"}

SimMgrInit ==
    /\ stream = <<>>
    /\ SyncInit
    /\ ParseInit
    /\ capacity = 1
    /\ channels = 1
    /\ RingInit
    /\ ClsInit /\ EnvInit /\ quietAmp = 0
    /\ LvlInit /\ lvlNoise = 0
    /\ SimInit /\ LoopInit /\ RecInit /\ enable_camera = FALSE /\ BleInit

simOther == <<emg_gen, imu_gen, imu_counter, sim_yielded, syncVars, parseVars, recVars, bleVars,
              ringVars, clsVars, envVars, lvlVars, loopVars>>

\* connect(), lines 30-36, when _running is not set (it returns at once
\* when it is)
SimMgrConnect ==
    /\ ~sim_running
    /\ Len(sim_tasks) < MaxSimTasks
    /\ sim_running' = TRUE
    /\ sim_tasks' = Append(sim_tasks, "start")
    /\ sim_task' = Len(sim_tasks) + 1
    /\ sim_quiet' = FALSE
    /\ UNCHANGED <<sim_waits, sim_last, simOther>>

\* _run, lines 46-57: from where the task is to its next await or its end
SimTaskStep(i) ==
    /\ sim_tasks[i] \in SimAlive
    /\ IF sim_running
       THEN /\ sim_tasks' = [sim_tasks EXCEPT ![i] = "sleep"]
            /\ sim_last' = i
       ELSE /\ sim_tasks' = [sim_tasks EXCEPT ![i] = "done"]
            /\ sim_last' = sim_last
    /\ UNCHANGED <<sim_running, sim_task, sim_waits, sim_quiet, simOther>>

\* disconnect(), lines 38-44, up to its await: it goes on without
\* suspending when there is no task or the task has ended
SimMgrDisconnectCall ==
    /\ Len(sim_waits) < MaxWaiters
    /\ sim_running' = FALSE
    /\ IF sim_task # 0 /\ sim_tasks[sim_task] # "done"
       THEN /\ sim_waits' = Append(sim_waits, sim_task)
            /\ UNCHANGED <<sim_task, sim_quiet>>
       ELSE /\ sim_task' = 0
            /\ sim_quiet' = TRUE
            /\ sim_waits' = sim_waits
    /\ UNCHANGED <<sim_tasks, sim_last, simOther>>

\* disconnect(), lines 42-44, resumed when the task it awaits has ended
SimMgrDisconnectReturn(w) ==
    /\ sim_tasks[sim_waits[w]] = "done"
    /\ sim_waits' = [k \in 1..(Len(sim_waits) - 1) |->
                        IF k < w THEN sim_waits[k] ELSE sim_waits[k + 1]]
    /\ sim_task' = 0
    /\ sim_quiet' = TRUE
    /\ UNCHANGED <<sim_running, sim_tasks, sim_last, simOther>>

SimMgrNext ==
    \/ SimMgrConnect
    \/ \E i \in 1..Len(sim_tasks) : SimTaskStep(i)
    \/ SimMgrDisconnectCall
    \/ \E w \in 1..Len(sim_waits) : SimMgrDisconnectReturn(w)

SimMgrSpec == SimMgrInit /\ [][SimMgrNext]_vars

\* the event loop wakes every sleeping task and resumes every coroutine
\* whose awaited task has ended
SimMgrFairSpec ==
    /\ SimMgrSpec
    /\ \A i \in 1..MaxSimTasks : WF_vars(i <= Len(sim_tasks) /\ SimTaskStep(i))
    /\ \A w \in 1..MaxWaiters : WF_vars(w <= Len(sim_waits) /\ SimMgrDisconnectReturn(w))

\* C36: whenever the simulator is running, at most one _run task has not
\* ended (each of them emits a sample at its next step).
C36_OneSimulatorTask ==
    sim_running =>
        Cardinality({i \in 1..Len(sim_tasks) : sim_tasks[i] \in SimAlive}) <= 1

\* C37: a disconnect() that is waiting for the task returns, and once a
\* disconnect() has returned and until the next connect() every _run task
\* has ended.
C37_SimDisconnectReturns ==
    /\ (sim_waits # <<>>) ~> (sim_waits = <<>>)
    /\ [](sim_quiet => \A i \in 1..Len(sim_tasks) : sim_tasks[i] = "done")

-----------------------------------------------------------------------------
(* MotionRecorder: a recording session, frame by frame. The capture thread *)
(* is seen only through the cache it fills: once it has stored a camera    *)
(* frame the cache holds one until the recording stops.                    *)

MAX_FULL_IMAGE_FRAMES == 100
MaxRecFrames == 102

camOther == <<cached_landmarks, cached_has_hand, frame_counter, camera_lock,
              main_pc, rd_frame, rd_landmarks, rd_error, rd_during>>

recOther == <<syncVars, parseVars, ringVars, clsVars, envVars, lvlVars, simVars,
              loopVars, bleVars>>

RecSpecInit ==
    /\ stream = <<>>
    /\ SyncInit
    /\ ParseInit
    /\ capacity = 1
    /\ channels = 1
    /\ RingInit
    /\ ClsInit /\ EnvInit /\ quietAmp = 0
    /\ LvlInit /\ lvlNoise = 0
    /\ SimInit /\ LoopInit /\ BleInit
    /\ RecInit
    /\ enable_camera \in BOOLEAN

\* start_recording(), lines 368-406: the camera or MediaPipe may fail to
\* open, which turns the camera off
RecStart ==
    /\ ~recording
    /\ \E opened \in BOOLEAN :
           /\ enable_camera' = (enable_camera /\ opened)
           /\ cam_pc' = IF enable_camera /\ opened THEN "idle" ELSE cam_pc
    /\ recording' = TRUE
    /\ session_frames' = <<>>
    /\ any_image' = FALSE
    /\ video' = "none"
    /\ UNCHANGED <<cached_frame, camOther, recOther>>

\* _camera_capture_loop, lines 322-327, for the first frame the camera gives
RecCacheFrame ==
    /\ recording
    /\ enable_camera
    /\ cached_frame = 0
    /\ cached_frame' = 1
    /\ UNCHANGED <<enable_camera, recording, session_frames, any_image, video,
                   cam_pc, camOther, recOther>>

\* lines 446-452: the image of the frame MAX_FULL_IMAGE_FRAMES before the
\* newest is dropped
DropOldImage(frames) ==
    IF Len(frames) > MAX_FULL_IMAGE_FRAMES
    THEN [frames EXCEPT ![Len(frames) - MAX_FULL_IMAGE_FRAMES] = FALSE]
    ELSE frames

\* add_emg_sample(emg_channels), lines 408-454
RecAddSample ==
    /\ recording
    /\ Len(session_frames) < MaxRecFrames
    /\ LET image == enable_camera /\ cached_frame # 0
       IN  /\ session_frames' = DropOldImage(Append(session_frames, image))
           /\ any_image' = (any_image \/ image)
    /\ UNCHANGED <<enable_camera, recording, video, cached_frame, cam_pc, camOther,
                   recOther>>

\* line 556: if self.enable_camera and self.session.frames[0].frame_image
\* is not None
VideoDue(enabled, frames) == enabled /\ frames[1]

\* stop_recording(save_path), lines 524-579
RecStop ==
    /\ recording
    /\ recording' = FALSE
    /\ IF session_frames = <<>>
       THEN UNCHANGED <<video, session_frames, cached_frame, cam_pc>>
       ELSE /\ video' = IF VideoDue(enable_camera, session_frames)
                        THEN "written" ELSE "skipped"
            /\ session_frames' = <<>>
            /\ cached_frame' = 0
            /\ cam_pc' = "stopped"
    /\ UNCHANGED <<enable_camera, any_image, camOther, recOther>>

RecNext == RecStart \/ RecCacheFrame \/ RecAddSample \/ RecStop

RecSpec == RecSpecInit /\ [][RecNext]_vars

\* C38: a stop_recording() that saved a session recorded with the camera
\* enabled, at least one frame of which was captured with an image, has
\* written the video file.
C38_VideoWritten ==
    (video # "none" /\ enable_camera /\ any_image) => video = "written"

-----------------------------------------------------------------------------
(* The frame cache shared by the capture thread and the thread that calls  *)
(* add_emg_sample() and get_current_frame(). Each step is one access to an *)
(* attribute. A cached frame or landmark array is named by the number of   *)
(* the camera frame it came from; 0 is None and Deleted is an attribute    *)
(* removed by del and not yet assigned again.                              *)

PROCESS_EVERY_N_FRAMES == 3
MaxCamFrames == 6
Deleted == -1

sessOther == <<enable_camera, recording, session_frames, any_image, video>>

mainOther == <<main_pc, rd_frame, rd_landmarks, rd_error, rd_during>>

CacheInit ==
    /\ stream = <<>>
    /\ SyncInit
    /\ ParseInit
    /\ capacity = 1
    /\ channels = 1
    /\ RingInit
    /\ ClsInit /\ EnvInit /\ quietAmp = 0
    /\ LvlInit /\ lvlNoise = 0
    /\ SimInit /\ LoopInit /\ BleInit
    /\ RecInit
    /\ enable_camera = TRUE

\* _start_camera_thread(), lines 244-255, called by start_recording()
\* through _init_camera()
CacheStart ==
    /\ cam_pc = "stopped"
    /\ ~recording
    /\ recording' = TRUE
    /\ cam_pc' = "idle"
    /\ UNCHANGED <<enable_camera, session_frames, any_image, video, cached_frame,
                   cached_landmarks, cached_has_hand, frame_counter, camera_lock,
                   mainOther, recOther>>

\* lines 309-322: a frame is read and counted, then the lock is taken
CamAcquire ==
    /\ cam_pc = "idle"
    /\ camera_lock = "free"
    /\ frame_counter < MaxCamFrames
    /\ frame_counter' = frame_counter + 1
    /\ camera_lock' = "capture"
    /\ cam_pc' = "del_frame"
    /\ UNCHANGED <<sessOther, cached_frame, cached_landmarks, cached_has_hand,
                   mainOther, recOther>>

\* lines 324-325: del self._cached_frame
CamDelFrame ==
    /\ cam_pc = "del_frame"
    /\ cached_frame' = IF cached_frame # 0 THEN Deleted ELSE cached_frame
    /\ cam_pc' = "set_frame"
    /\ UNCHANGED <<sessOther, cached_landmarks, cached_has_hand, frame_counter,
                   camera_lock, mainOther, recOther>>

\* line 320
ShouldProcess(n) == n % PROCESS_EVERY_N_FRAMES = 0

\* lines 327-329
CamSetFrame ==
    /\ cam_pc = "set_frame"
    /\ cached_frame' = frame_counter
    /\ cam_pc' = IF ShouldProcess(frame_counter) THEN "process" ELSE "release"
    /\ UNCHANGED <<sessOther, cached_landmarks, cached_has_hand, frame_counter,
                   camera_lock, mainOther, recOther>>

\* lines 330-356: MediaPipe finds a hand, finds none, or raises
CamProcess ==
    /\ cam_pc = "process"
    /\ \E outcome \in {"hand", "nohand", "error"} :
           CASE outcome = "hand" ->
                    /\ cached_landmarks' = IF cached_landmarks # 0 THEN Deleted
                                           ELSE cached_landmarks
                    /\ cam_pc' = "set_landmarks"
             [] outcome = "nohand" ->
                    /\ cached_landmarks' = 0
                    /\ cam_pc' = "clear_has_hand"
             [] outcome = "error" ->
                    /\ UNCHANGED cached_landmarks
                    /\ cam_pc' = "release"
    /\ UNCHANGED <<sessOther, cached_frame, cached_has_hand, frame_counter,
                   camera_lock, mainOther, recOther>>

\* lines 344-347
CamSetLandmarks ==
    /\ cam_pc = "set_landmarks"
    /\ cached_landmarks' = frame_counter
    /\ cam_pc' = "set_has_hand"
    /\ UNCHANGED <<sessOther, cached_frame, cached_has_hand, frame_counter,
                   camera_lock, mainOther, recOther>>

\* lines 348 and 351
CamSetHasHand ==
    /\ cam_pc \in {"set_has_hand", "clear_has_hand"}
    /\ cached_has_hand' = (cam_pc = "set_has_hand")
    /\ cam_pc' = "release"
    /\ UNCHANGED <<sessOther, cached_frame, cached_landmarks, frame_counter,
                   camera_lock, mainOther, recOther>>

\* end of the with block, line 353
CamRelease ==
    /\ cam_pc = "release"
    /\ camera_lock' = "free"
    /\ cam_pc' = "idle"
    /\ UNCHANGED <<sessOther, cached_frame, cached_landmarks, cached_has_hand,
                   frame_counter, mainOther, recOther>>

camCache == <<cached_frame, cached_landmarks, cached_has_hand, frame_counter, cam_pc>>

\* add_emg_sample(), lines 429-434: both reads inside with self._camera_lock
AddSampleAcquire ==
    /\ main_pc = "idle"
    /\ recording
    /\ camera_lock = "free"
    /\ camera_lock' = "main"
    /\ main_pc' = "add_read"
    /\ rd_frame' = 0
    /\ rd_landmarks' = 0
    /\ UNCHANGED <<sessOther, camCache, rd_error, rd_during, recOther>>

AddSampleRead ==
    /\ main_pc = "add_read"
    /\ rd_frame' = cached_frame
    /\ rd_landmarks' = cached_landmarks
    /\ rd_during' = (rd_during \/ camera_lock = "capture")
    /\ camera_lock' = "free"
    /\ main_pc' = "idle"
    /\ UNCHANGED <<sessOther, camCache, rd_error, recOther>>

\* what reading an attribute gives: a value, or AttributeError after del
Raises(value, error) == IF value = Deleted THEN "AttributeError" ELSE error

\* get_current_frame(), line 464: self._cached_frame is None
GetCheckFrame ==
    /\ main_pc = "idle"
    /\ rd_frame' = 0
    /\ rd_landmarks' = 0
    /\ rd_during' = (rd_during \/ camera_lock = "capture")
    /\ rd_error' = Raises(cached_frame, rd_error)
    /\ main_pc' = IF cached_frame \in {0, Deleted} THEN "idle" ELSE "get_copy"
    /\ UNCHANGED <<sessOther, camCache, camera_lock, recOther>>

\* line 467: frame = self._cached_frame.copy()
GetCopyFrame ==
    /\ main_pc = "get_copy"
    /\ rd_during' = (rd_during \/ camera_lock = "capture")
    /\ rd_error' = Raises(cached_frame, rd_error)
    /\ rd_frame' = IF cached_frame = Deleted THEN rd_frame ELSE cached_frame
    /\ main_pc' = IF cached_frame = Deleted THEN "idle" ELSE "get_has_hand"
    /\ UNCHANGED <<sessOther, camCache, camera_lock, rd_landmarks, recOther>>

\* lines 468 and 471: has_hand = self._cached_has_hand; if has_hand and ...
GetHasHand ==
    /\ main_pc = "get_has_hand"
    /\ rd_during' = (rd_during \/ camera_lock = "capture")
    /\ main_pc' = IF cached_has_hand THEN "get_check_landmarks" ELSE "idle"
    /\ UNCHANGED <<sessOther, camCache, camera_lock, rd_frame, rd_landmarks,
                   rd_error, recOther>>

\* line 471: self._cached_landmarks is not None
GetCheckLandmarks ==
    /\ main_pc = "get_check_landmarks"
    /\ rd_during' = (rd_during \/ camera_lock = "capture")
    /\ rd_error' = Raises(cached_landmarks, rd_error)
    /\ main_pc' = IF cached_landmarks \in {0, Deleted} THEN "idle"
                  ELSE "get_landmarks"
    /\ UNCHANGED <<sessOther, camCache, camera_lock, rd_frame, rd_landmarks,
                   recOther>>

\* lines 474-477: for lm in self._cached_landmarks
GetLandmarks ==
    /\ main_pc = "get_landmarks"
    /\ rd_during' = (rd_during \/ camera_lock = "capture")
    /\ rd_error' = IF cached_landmarks = 0 THEN "TypeError"
                   ELSE Raises(cached_landmarks, rd_error)
    /\ rd_landmarks' = IF cached_landmarks \in {0, Deleted} THEN rd_landmarks
                       ELSE cached_landmarks
    /\ main_pc' = "idle"
    /\ UNCHANGED <<sessOther, camCache, camera_lock, rd_frame, recOther>>

CacheNext ==
    \/ CacheStart
    \/ CamAcquire
    \/ CamDelFrame
    \/ CamSetFrame
    \/ CamProcess
    \/ CamSetLandmarks
    \/ CamSetHasHand
    \/ CamRelease
    \/ AddSampleAcquire
    \/ AddSampleRead
    \/ GetCheckFrame
    \/ GetCopyFrame
    \/ GetHasHand
    \/ GetCheckLandmarks
    \/ GetLandmarks

CacheSpec == CacheInit /\ [][CacheNext]_vars

\* C39: no read of the cache by add_emg_sample() or get_current_frame()
\* happens while the capture thread holds the lock, no read meets a deleted
\* attribute or fails, and the landmarks a call read are not from a later
\* camera frame than the frame it read.
C39_ReadersExcluded ==
    /\ ~rd_during
    /\ rd_error = "none"
    /\ rd_landmarks <= rd_frame

-----------------------------------------------------------------------------
(* DeviceManager over BleController. ble_client is the controller's        *)
(* _client, mgr_client the manager's; ble_result is how the last connect() *)
(* ended and ble_calls counts the connect() calls.                         *)

MaxBleCalls == 4
Addresses == {"AA:01", "AA:02", "AA:03"}

bleOther == <<syncVars, parseVars, ringVars, clsVars, envVars, lvlVars, simVars,
              loopVars, recVars>>

BleSpecInit ==
    /\ stream = <<>>
    /\ SyncInit
    /\ ParseInit
    /\ capacity = 1
    /\ channels = 1
    /\ RingInit
    /\ ClsInit /\ EnvInit /\ quietAmp = 0
    /\ LvlInit /\ lvlNoise = 0
    /\ SimInit /\ LoopInit
    /\ RecInit /\ enable_camera = FALSE
    /\ BleInit

\* self.controller.client, device_manager.py line 43: client is declared
\* with def and without @property (ble.py lines 64-65), so the attribute is
\* the bound method, not the value it would return
ControllerClient(c) == [kind |-> "method", returns |-> c]

\* not client, line 44: a method object is true, None is false
Falsy(v) == v.kind = "value" /\ v.returns = NoClient

\* line 44: if not client or not client.is_connected; a method object has
\* no attribute is_connected
ConnectCheck(v) ==
    IF Falsy(v) THEN "RuntimeError"
    ELSE IF v.kind = "method" THEN "AttributeError"
    ELSE IF ~v.returns.is_connected THEN "RuntimeError"
    ELSE "ok"

\* DeviceManager.scan(timeout), lines 34-38
BleScan ==
    /\ ble_status # "Found"
    /\ ble_status' = "Found"
    /\ UNCHANGED <<ble_client, mgr_client, notifying, ble_result, ble_calls, bleOther>>

\* DeviceManager.connect(address), lines 40-42, up to the point where
\* BleController.connect (ble.py lines 45-55) waits for BleakClient.connect():
\* the controller has dropped its old client and made the new one
BleConnectCall ==
    /\ ble_result # "pending"
    /\ ble_calls < MaxBleCalls
    /\ ble_calls' = ble_calls + 1
    /\ \E address \in Addresses :
           ble_client' = [address |-> address, is_connected |-> FALSE]
    /\ ble_status' = "Connecting"
    /\ ble_result' = "pending"
    /\ UNCHANGED <<mgr_client, notifying, bleOther>>

\* BleakClient.connect() succeeds or raises, and DeviceManager.connect()
\* goes on from line 43 to its end
BleConnectDone ==
    /\ ble_result = "pending"
    /\ \E reached \in BOOLEAN :
           LET made == [ble_client EXCEPT !.is_connected = reached]
               check == ConnectCheck(ControllerClient(made))
           IN  /\ ble_client' = made
               /\ IF ~reached
                  THEN /\ ble_result' = "BleakError"
                       /\ UNCHANGED <<mgr_client, notifying, ble_status>>
                  ELSE IF check # "ok"
                  THEN /\ ble_result' = check
                       /\ UNCHANGED <<mgr_client, notifying, ble_status>>
                  ELSE /\ ble_result' = "returned"
                       /\ mgr_client' = made
                       /\ notifying' = TRUE
                       /\ ble_status' = "Connected"
    /\ UNCHANGED <<ble_calls, bleOther>>

\* DeviceManager.disconnect(), lines 50-58, with BleController.disconnect,
\* ble.py lines 58-62, called when no connect() is under way
BleDisconnect ==
    /\ ble_result # "pending"
    /\ ble_status # "Disconnected"
    /\ notifying' = IF mgr_client # NoClient THEN FALSE ELSE notifying
    /\ ble_client' = NoClient
    /\ mgr_client' = NoClient
    /\ ble_status' = "Disconnected"
    /\ UNCHANGED <<ble_result, ble_calls, bleOther>>

\* the device goes away: the callback set at ble.py line 56 calls
\* _handle_disconnect, device_manager.py lines 60-61
BleDeviceLost ==
    /\ ble_client.is_connected
    /\ ble_client' = [ble_client EXCEPT !.is_connected = FALSE]
    /\ ble_status' = "Device disconnected"
    /\ UNCHANGED <<mgr_client, notifying, ble_result, ble_calls, bleOther>>

BleNext == BleScan \/ BleConnectCall \/ BleConnectDone \/ BleDisconnect \/ BleDeviceLost

BleSpec == BleSpecInit /\ [][BleNext]_vars

\* C40: a connect() during which the controller reached the device returns,
\* with the client recorded, notifications subscribed and the status
\* "Connected"; a connect() raises only when the controller has no connected
\* client.
C40_ConnectReports ==
    [][(ble_result = "pending" /\ ble_result' # "pending") =>
          IF ble_client'.is_connected
          THEN /\ ble_result' = "returned"
               /\ mgr_client' = ble_client'
               /\ notifying'
               /\ ble_status' = "Connected"
          ELSE ble_result' # "returned"]_vars

====
